---- MODULE Spec2Model ----
(***************************************************************************)
(* A model of jsonschema-infer: the observation tree (SchemaNode), its     *)
(* assembly into a Schema document (ToSchema) and the Generator that owns   *)
(* the tree, the sample counter and the cached document.                    *)
(*                                                                          *)
(* The tree is kept flat: a function from paths to nodes.  The root is the  *)
(* empty path; Append(p, k) is the node objectProperties[k] of the node at  *)
(* p and Append(p, ITEM) is its arrayItemNode.  A child exists iff its path *)
(* is in the domain of the tree.                                            *)
(***************************************************************************)
EXTENDS Integers, Sequences, FiniteSets, Bags, TLC

(***************************************************************************)
(* Bounds                                                                   *)
(***************************************************************************)
\* number of calls of AddSample, AddParsedSample and Load explored
MaxSteps == 3
\* a Load that replaces the tree is one of the first MaxLoadStep of them
MaxLoadStep == 2
\* the goroutines of the concurrent specification and the calls they make in all
NumThreads == 2
MaxCalls == 3
\* the calls made in all where the scheduler is fair
MaxFairCalls == 2
\* the documents of GetCurrentSchema a caller keeps
MaxHeld == 1
\* the options New is given where the detector list is examined
MaxOptions == 3

(***************************************************************************)
(* Decoded JSON values (what json.Unmarshal hands to AddParsedSample).      *)
(* Numbers are float64 in the code; here a number is kept in tenths, so     *)
(* that 10 is 1.0 and 15 is 1.5.                                            *)
(***************************************************************************)
\* Every value carries every field, so that any two values can be compared;
\* t tells which field holds the value.  Null is also the nil interface value
\* of a field that was never assigned.
EmptyMap == [k \in {} |-> 0]
Null == [t |-> "null", b |-> FALSE, n |-> 0, s |-> "", a |-> <<>>, o |-> EmptyMap]
Bool(b) == [Null EXCEPT !.t = "bool", !.b = b]
Num(tenths) == [Null EXCEPT !.t = "num", !.n = tenths]
Str(s) == [Null EXCEPT !.t = "str", !.s = s]
Arr(seq) == [Null EXCEPT !.t = "arr", !.a = seq]
Obj(f) == [Null EXCEPT !.t = "obj", !.o = f]

\* the marker of the arrayItemNode edge in a path
ITEM == "[]"

\* sort.Strings on the property names of the model
KeyOrder == <<"a", "b", "c">>
\* sort.Strings on the type names
TypeOrder == <<"", "array", "boolean", "integer", "null", "number", "object", "string">>
TypeNames == {TypeOrder[i] : i \in DOMAIN TypeOrder}

SortStrings(order, set) == SelectSeq(order, LAMBDA x : x \in set)

Range(seq) == {seq[i] : i \in DOMAIN seq}

(***************************************************************************)
(* Strings of the model and the detectors' values on them.                  *)
(***************************************************************************)
S_PLAIN == "x"
S_V4 == "1.2.3.4"
S_MAPPED == "::ffff:1.2.3.4"
S_DAY == "2023-01-15"
S_TIME == "2023-01-15T10:30:00Z"

\* time.Parse(RFC3339) after the length check: only S_TIME has 20 characters
isDateTime(s) == s \in {S_TIME}
\* needs an '@'
isEmail(s) == FALSE
\* needs 36 characters
isUUID(s) == FALSE
\* net.ParseIP succeeds, To4() is not nil (true of a v4-mapped address) and a '.'
isIPv4(s) == s \in {S_V4, S_MAPPED}
\* net.ParseIP succeeds and the text holds a ':'
isIPv6(s) == s \in {S_MAPPED}
\* needs the prefix http or ftp
isURL(s) == FALSE
\* the detector of TestCustomFormatOverride: len(s) == 10, s[4] == '-', s[7] == '-'
myDateDetector(s) == s \in {S_DAY}
\* the synthetic detector a loaded format is seeded with
alwaysTrue(s) == TRUE

\* a detector is kept in the state by name; Detect applies it
Detect(det, s) ==
    CASE det = "isDateTime" -> isDateTime(s)
      [] det = "isEmail" -> isEmail(s)
      [] det = "isUUID" -> isUUID(s)
      [] det = "isIPv6" -> isIPv6(s)
      [] det = "isIPv4" -> isIPv4(s)
      [] det = "isURL" -> isURL(s)
      [] det = "myDateDetector" -> myDateDetector(s)
      [] det = "alwaysTrue" -> alwaysTrue(s)

CustomFormat(name, det) == [Name |-> name, Detector |-> det]

getBuiltInFormats ==
    << CustomFormat("date-time", "isDateTime"),
       CustomFormat("email", "isEmail"),
       CustomFormat("uuid", "isUUID"),
       CustomFormat("ipv6", "isIPv6"),
       CustomFormat("ipv4", "isIPv4"),
       CustomFormat("uri", "isURL") >>

(***************************************************************************)
(* SchemaNode                                                               *)
(***************************************************************************)
\* observedTypes is a Go map whose entries are only ever created with a count
\* of at least 1: a count of 0 stands for an absent entry.
\* candidatesNil tells the nil slice (not yet initialised) from an empty one.
\* A nil interface value (constValue, firstValue) is Null, as in the decoder.
\* stringValues is the buffer of the batch detector (node.go); allMatch reads
\* only its elements, so it is kept as a set.
NewSchemaNode ==
    [ observedTypes |-> [x \in TypeNames |-> 0],
      sampleCount |-> 0,
      stringCount |-> 0,
      candidatesNil |-> TRUE,
      candidateFormats |-> <<>>,
      candidateDetectors |-> <<>>,
      constValue |-> Null,
      constSet |-> FALSE,
      constDiffer |-> FALSE,
      firstValue |-> Null,
      predefinedType |-> "",
      stringValues |-> {} ]

getPrimitiveType(value) ==
    CASE value.t = "bool" -> "boolean"
      [] value.t = "num" -> IF value.n % 10 = 0 THEN "integer" ELSE "number"
      [] value.t = "str" -> "string"
      [] value.t = "arr" -> "array"
      [] value.t = "obj" -> "object"
      [] value.t = "null" -> "null"
      [] OTHER -> "string"

\* the nodes a node owns
objectProperties(tree, p) ==
    {k \in Range(KeyOrder) : Append(p, k) \in DOMAIN tree}
hasArrayItemNode(tree, p) == Append(p, ITEM) \in DOMAIN tree

\* a node made anew at q each time, in the place of the one that is there
EnsureNodeAnew(tree, q) == (q :> NewSchemaNode) @@ tree

\* n.objectProperties[key] = NewSchemaNode() / n.arrayItemNode = NewSchemaNode(),
\* when there is none yet
EnsureNode(tree, q) ==
    IF q \in DOMAIN tree THEN tree ELSE tree @@ (q :> NewSchemaNode)

\* a const switch that forgets a candidate instead of disqualifying the node
TrackConstForgetful(n, typeName, value) ==
    IF typeName \in {"string", "integer", "number", "boolean"}
    THEN IF ~n.constSet
         THEN [n EXCEPT !.constValue = value, !.constSet = TRUE]
         ELSE IF n.constValue # value
              THEN [n EXCEPT !.constSet = FALSE, !.constValue = Null]
              ELSE n
    ELSE n

\* the const switch of ObserveValue
TrackConst(n, typeName, value) ==
    IF typeName \in {"string", "integer", "number", "boolean"} /\ ~n.constDiffer
    THEN IF ~n.constSet
         THEN [n EXCEPT !.constValue = value, !.constSet = TRUE]
         ELSE IF n.constValue # value
              THEN [n EXCEPT !.constDiffer = TRUE, !.constValue = Null]
              ELSE n
    ELSE n

\* an elimination that keeps the first matching candidate only
SurvivorsFirstOnly(detectors, str) ==
    LET all == SelectSeq([i \in DOMAIN detectors |-> i],
                         LAMBDA i : Detect(detectors[i], str))
    IN  IF all = <<>> THEN <<>> ELSE <<all[1]>>

\* the indices of the candidates whose detector matches str, in order
Survivors(detectors, str) ==
    SelectSeq([i \in DOMAIN detectors |-> i], LAMBDA i : Detect(detectors[i], str))

\* an elimination that seeds the list again once it is empty
EliminateCandidatesReseed(n, str, formats) ==
    LET seeded ==
            [n EXCEPT !.candidatesNil = FALSE,
                      !.candidateFormats =
                          IF n.candidatesNil \/ @ = <<>>
                          THEN [i \in DOMAIN formats |-> formats[i].Name] ELSE @,
                      !.candidateDetectors =
                          IF n.candidatesNil \/ @ = <<>>
                          THEN [i \in DOMAIN formats |-> formats[i].Detector] ELSE @]
        keep == Survivors(seeded.candidateDetectors, str)
    IN  [seeded EXCEPT
            !.candidateFormats = [j \in DOMAIN keep |-> seeded.candidateFormats[keep[j]]],
            !.candidateDetectors = [j \in DOMAIN keep |-> seeded.candidateDetectors[keep[j]]]]

\* an elimination that keeps the list as it is when no candidate matches
EliminateCandidatesKeepLast(n, str, formats) ==
    LET seeded ==
            IF n.candidatesNil
            THEN [n EXCEPT !.candidatesNil = FALSE,
                           !.candidateFormats = [i \in DOMAIN formats |-> formats[i].Name],
                           !.candidateDetectors = [i \in DOMAIN formats |-> formats[i].Detector]]
            ELSE n
        keep == Survivors(seeded.candidateDetectors, str)
    IN  IF keep # <<>>
        THEN [seeded EXCEPT
                !.candidateFormats = [j \in DOMAIN keep |-> seeded.candidateFormats[keep[j]]],
                !.candidateDetectors = [j \in DOMAIN keep |-> seeded.candidateDetectors[keep[j]]]]
        ELSE seeded

\* the string case of ObserveValue: seed on the first string, then compact
EliminateCandidates(n, str, formats) ==
    LET seeded ==
            IF n.candidatesNil
            THEN [n EXCEPT !.candidatesNil = FALSE,
                           !.candidateFormats = [i \in DOMAIN formats |-> formats[i].Name],
                           !.candidateDetectors = [i \in DOMAIN formats |-> formats[i].Detector]]
            ELSE n
        keep == Survivors(seeded.candidateDetectors, str)
    IN  IF Len(seeded.candidateFormats) > 0
        THEN [seeded EXCEPT
                !.candidateFormats = [j \in DOMAIN keep |-> seeded.candidateFormats[keep[j]]],
                !.candidateDetectors = [j \in DOMAIN keep |-> seeded.candidateDetectors[keep[j]]]]
        ELSE seeded

\* an ObserveValue that counts the sample only at nodes that hold no object
ObserveNodeLeafCount(n, value, examplesEnabled, formats) ==
    LET typeName == getPrimitiveType(value)
        n2 == [n EXCEPT !.sampleCount = IF typeName = "object" THEN @ ELSE @ + 1,
                        !.observedTypes[typeName] = @ + 1]
    IN  TrackConst(n2, typeName, value)

\* ObserveValue up to the type switch: what it does to the node itself
ObserveNode(n, value, examplesEnabled, formats) ==
    LET typeName == getPrimitiveType(value)
        n1 == IF examplesEnabled /\ n.sampleCount = 0
              THEN [n EXCEPT !.firstValue = value] ELSE n
        n2 == [n1 EXCEPT !.sampleCount = @ + 1,
                         !.observedTypes[typeName] = @ + 1]
        n3 == TrackConst(n2, typeName, value)
    IN  IF value.t = "str"
        THEN EliminateCandidates(
                 [n3 EXCEPT !.stringCount = @ + 1,
                            !.stringValues = @ \cup {value.s}],
                 value.s, formats)
        ELSE n3

RECURSIVE ObserveValue(_, _, _, _, _)
RECURSIVE ObserveItems(_, _, _, _, _)
RECURSIVE ObserveProperties(_, _, _, _, _, _)

\* the node at p observes value; the result is the tree after the call
ObserveValue(tree, p, value, examplesEnabled, formats) ==
    LET t1 == [tree EXCEPT ![p] = ObserveNode(@, value, examplesEnabled, formats)]
    IN  CASE value.t = "arr" ->
               ObserveItems(EnsureNode(t1, Append(p, ITEM)), Append(p, ITEM),
                            value.a, examplesEnabled, formats)
          [] value.t = "obj" ->
               ObserveProperties(t1, p, value.o, DOMAIN value.o, examplesEnabled, formats)
          [] OTHER -> t1

\* a loop that shows the item node the first element of the array only
ObserveItemsFirstOnly(tree, q, arr, examplesEnabled, formats) ==
    IF arr = <<>> THEN tree
    ELSE ObserveValue(tree, q, Head(arr), examplesEnabled, formats)

\* for _, item := range arr
ObserveItems(tree, q, arr, examplesEnabled, formats) ==
    IF arr = <<>> THEN tree
    ELSE ObserveItems(ObserveValue(tree, q, Head(arr), examplesEnabled, formats),
                      q, Tail(arr), examplesEnabled, formats)

\* a loop over the properties that creates the child of a non-null value only
ObservePropertiesLazy(tree, p, obj, keys, examplesEnabled, formats) ==
    IF keys = {} THEN tree
    ELSE LET key == CHOOSE k \in keys : TRUE
             q == Append(p, key)
             t2 == IF obj[key] # Null
                   THEN ObserveValue(EnsureNode(tree, q), q, obj[key], examplesEnabled, formats)
                   ELSE tree
         IN  ObserveProperties(t2, p, obj, keys \ {key}, examplesEnabled, formats)

\* a loop over the properties that observes a null like any other value
ObservePropertiesNullToo(tree, p, obj, keys, examplesEnabled, formats) ==
    IF keys = {} THEN tree
    ELSE LET key == CHOOSE k \in keys : TRUE
             q == Append(p, key)
             t2 == ObserveValue(EnsureNode(tree, q), q, obj[key], examplesEnabled, formats)
         IN  ObserveProperties(t2, p, obj, keys \ {key}, examplesEnabled, formats)

\* for key, val := range obj: the keys touch disjoint subtrees, so the order
\* of the map iteration does not show in the result
ObserveProperties(tree, p, obj, keys, examplesEnabled, formats) ==
    IF keys = {} THEN tree
    ELSE LET key == CHOOSE k \in keys : TRUE
             q == Append(p, key)
             t1 == EnsureNode(tree, q)
             t2 == IF obj[key] # Null
                   THEN ObserveValue(t1, q, obj[key], examplesEnabled, formats)
                   ELSE t1
         IN  ObserveProperties(t2, p, obj, keys \ {key}, examplesEnabled, formats)

(***************************************************************************)
(* ToSchema: the assembly of a document from the tree.                      *)
(* A document is a function from the paths it describes to Schema records;  *)
(* Properties is the set of keys of the properties map, Items tells whether *)
(* items is set, Required is the list (<<>> when nil).  Type is a string, a *)
(* list of strings, or nil.                                                 *)
(***************************************************************************)
TNil == [k |-> "nil", s |-> "", l |-> <<>>]
TStr(s) == [TNil EXCEPT !.k = "str", !.s = s]
TList(l) == [TNil EXCEPT !.k = "list", !.l = l]

EmptySchema ==
    [ Schema |-> "", Type |-> TNil, Properties |-> {}, Items |-> FALSE,
      Required |-> <<>>, Format |-> "", Const |-> Null, Example |-> Null ]

\* the keys of the observedTypes map
ObservedTypeNames(n) == {x \in TypeNames : n.observedTypes[x] > 0}

\* getPrimaryType ranges over a Go map, whose iteration order is not fixed:
\* of several types with the highest count it returns the one met first.
\* The set of its possible results.
getPrimaryType(n) ==
    IF ObservedTypeNames(n) = {} THEN {""}
    ELSE {x \in ObservedTypeNames(n) :
            \A y \in ObservedTypeNames(n) : n.observedTypes[y] <= n.observedTypes[x]}

\* one result of getPrimaryType for every node of the tree
PrimaryChoices(tree) ==
    LET tied == {p \in DOMAIN tree : Cardinality(getPrimaryType(tree[p])) > 1}
        free == {f \in [tied -> TypeNames] : \A p \in tied : f[p] \in getPrimaryType(tree[p])}
    IN  { [p \in DOMAIN tree |->
              IF p \in tied THEN f[p] ELSE CHOOSE x \in getPrimaryType(tree[p]) : TRUE]
          : f \in free }

\* the "multiple types" block of ToSchema
ObservedType(n, primaryType) ==
    IF Cardinality(ObservedTypeNames(n)) > 1
    THEN LET types == SortStrings(TypeOrder, ObservedTypeNames(n) \ {"null"})
         IN  IF Len(types) = 1 THEN TStr(types[1])
             ELSE IF Len(types) > 1 THEN TList(types)
             ELSE TNil
    ELSE TStr(primaryType)

applyStringPatterns(n, schema) ==
    IF n.stringCount = 0 THEN schema
    ELSE IF Len(n.candidateFormats) > 0
         THEN [schema EXCEPT !.Format = n.candidateFormats[1]]
         ELSE schema

\* allMatch of the buffered detection: every string matches the detector
allMatch(values, det) == \A str \in values : Detect(det, str)

\* the buffered detection: the first format, in list order, whose detector
\* matches every string the node has kept
applyStringPatternsBatch(n, schema, formats) ==
    LET matching == SelectSeq(formats, LAMBDA f : allMatch(n.stringValues, f.Detector))
    IN  IF n.stringValues = {} \/ matching = <<>> THEN schema
        ELSE [schema EXCEPT !.Format = matching[1].Name]

\* a required list of every key that was observed at all
RequiredKeysSeenOnce(tree, p) ==
    SortStrings(KeyOrder,
        {k \in objectProperties(tree, p) : tree[Append(p, k)].sampleCount > 0})

\* a required list that compares the child with the object observations of
\* the node only
RequiredKeysOfObjects(tree, p) ==
    SortStrings(KeyOrder,
        {k \in objectProperties(tree, p) :
            tree[Append(p, k)].sampleCount = tree[p].observedTypes["object"]})

\* the required list of an object node: the keys whose child was observed as
\* often as the node, sorted
RequiredKeys(tree, p) ==
    SortStrings(KeyOrder,
        {k \in objectProperties(tree, p) :
            tree[Append(p, k)].sampleCount = tree[p].sampleCount})

applyPredefinedType(tree, p) ==
    LET pt == tree[p].predefinedType
    IN  CASE pt = "datetime" ->
               [EmptySchema EXCEPT !.Type = TStr("string"), !.Format = "date-time"]
          [] pt = "string" -> [EmptySchema EXCEPT !.Type = TStr("string")]
          [] pt = "boolean" -> [EmptySchema EXCEPT !.Type = TStr("boolean")]
          [] pt = "number" -> [EmptySchema EXCEPT !.Type = TStr("number")]
          [] pt = "integer" -> [EmptySchema EXCEPT !.Type = TStr("integer")]
          [] pt = "array" ->
               [EmptySchema EXCEPT !.Type = TStr("array"),
                                   !.Items = hasArrayItemNode(tree, p)]
          [] pt = "object" ->
               [EmptySchema EXCEPT !.Type = TStr("object"),
                                   !.Properties = objectProperties(tree, p)]
          [] OTHER -> EmptySchema

\* the Schema ToSchema returns for the node at p, without the documents of its
\* children; primaryType is what getPrimaryType returned
ToSchemaNode(tree, p, primaryType) ==
    LET n == tree[p]
        s1 == [EmptySchema EXCEPT !.Type = ObservedType(n, primaryType)]
        s2 == IF n.constSet /\ ~n.constDiffer
              THEN [s1 EXCEPT !.Const = n.constValue] ELSE s1
        s3 == IF n.firstValue # Null
              THEN [s2 EXCEPT !.Example = n.firstValue] ELSE s2
    IN  IF n.predefinedType # "" THEN applyPredefinedType(tree, p)
        ELSE CASE primaryType = "string" -> applyStringPatterns(n, s3)
               [] primaryType = "array" ->
                    [s3 EXCEPT !.Type = TStr("array"),
                               !.Items = hasArrayItemNode(tree, p)]
               [] primaryType = "object" ->
                    [s3 EXCEPT !.Type = TStr("object"),
                               !.Properties = objectProperties(tree, p),
                               !.Required = RequiredKeys(tree, p)]
               [] OTHER -> s3

\* the children whose ToSchema the call at p recurses into
ToSchemaChildren(tree, p, primaryType) ==
    LET body == IF tree[p].predefinedType # ""
                THEN tree[p].predefinedType ELSE primaryType
    IN  CASE body = "array" ->
               IF hasArrayItemNode(tree, p) THEN {Append(p, ITEM)} ELSE {}
          [] body = "object" -> {Append(p, k) : k \in objectProperties(tree, p)}
          [] OTHER -> {}

RECURSIVE ToSchemaPaths(_, _, _)
\* every node the recursion of ToSchema reaches from p
ToSchemaPaths(tree, p, pick) ==
    {p} \cup UNION {ToSchemaPaths(tree, q, pick) : q \in ToSchemaChildren(tree, p, pick[p])}

ToSchema(tree, p, pick) ==
    [q \in ToSchemaPaths(tree, p, pick) |-> ToSchemaNode(tree, q, pick[q])]

(***************************************************************************)
(* Inputs                                                                   *)
(***************************************************************************)
\* json.Unmarshal on the texts of the model: the decoded value of each text
\* that is JSON.  Object keys come out as a map, so a key occurs once.
Decoded ==
    ("{}" :> Obj(EmptyMap))
    @@ ("{\"a\":\"x\"}" :> Obj("a" :> Str(S_PLAIN)))
    @@ ("{\"a\":\"::ffff:1.2.3.4\"}" :> Obj("a" :> Str(S_MAPPED)))
    @@ ("{\"a\":null,\"b\":1.5}" :> Obj("a" :> Null @@ "b" :> Num(15)))
    @@ ("{\"a\":1,\"b\":\"x\"}" :> Obj("a" :> Num(10) @@ "b" :> Str(S_PLAIN)))
    @@ ("{\"a\":{\"c\":\"2023-01-15\"},\"b\":null}" :>
            Obj("a" :> Obj("c" :> Str(S_DAY)) @@ "b" :> Null))
    @@ ("{\"a\":[]}" :> Obj("a" :> Arr(<<>>)))
    @@ ("{\"a\":[\"::ffff:1.2.3.4\",\"1.2.3.4\",\"::ffff:1.2.3.4\"]}" :>
            Obj("a" :> Arr(<<Str(S_MAPPED), Str(S_V4), Str(S_MAPPED)>>)))
    @@ ("{\"a\":[{\"b\":1,\"c\":true},{\"c\":true}]}" :>
            Obj("a" :> Arr(<<Obj("b" :> Num(10) @@ "c" :> Bool(TRUE)),
                             Obj("c" :> Bool(TRUE))>>)))
    @@ ("[1,null]" :> Arr(<<Num(10), Null>>))

\* texts json.Unmarshal rejects
Undecodable == {"{invalid json}"}

Texts == DOMAIN Decoded \cup Undecodable

\* the values handed to AddParsedSample directly
ParsedValues == {Decoded["[1,null]"]}

\* json.Unmarshal([]byte(jsonData), &data): the error and the value
Unmarshal(text) ==
    IF text \in DOMAIN Decoded
    THEN [err |-> FALSE, data |-> Decoded[text]]
    ELSE [err |-> TRUE, data |-> Null]

(***************************************************************************)
(* Options and New                                                          *)
(***************************************************************************)
Draft06 == "http://json-schema.org/draft-06/schema#"
Draft07 == "http://json-schema.org/draft-07/schema#"

WithPredefined(fieldName, typeValue) ==
    [o |-> "WithPredefined", name |-> fieldName, arg |-> typeValue, n |-> 0]
WithMaxSamples(max) ==
    [o |-> "WithMaxSamples", name |-> "", arg |-> "", n |-> max]
WithCustomFormat(formatName, detector) ==
    [o |-> "WithCustomFormat", name |-> formatName, arg |-> detector, n |-> 0]
WithoutBuiltInFormats ==
    [o |-> "WithoutBuiltInFormats", name |-> "", arg |-> "", n |-> 0]
WithSchemaVersion(version) ==
    [o |-> "WithSchemaVersion", name |-> "", arg |-> version, n |-> 0]
WithExamples ==
    [o |-> "WithExamples", name |-> "", arg |-> "", n |-> 0]

\* the Generator fields an option may set
ApplyOption(g, opt) ==
    CASE opt.o = "WithPredefined" ->
           [g EXCEPT !.predefined = (opt.name :> opt.arg) @@ @]
      [] opt.o = "WithMaxSamples" -> [g EXCEPT !.maxSamples = opt.n]
      [] opt.o = "WithCustomFormat" ->
           [g EXCEPT !.customFormats = Append(@, CustomFormat(opt.name, opt.arg))]
      [] opt.o = "WithoutBuiltInFormats" -> [g EXCEPT !.customFormats = <<>>]
      [] opt.o = "WithSchemaVersion" -> [g EXCEPT !.schemaVersion = opt.arg]
      [] opt.o = "WithExamples" -> [g EXCEPT !.examplesEnabled = TRUE]

RECURSIVE ApplyOptions(_, _)
ApplyOptions(g, opts) ==
    IF opts = <<>> THEN g
    ELSE ApplyOptions(ApplyOption(g, Head(opts)), Tail(opts))

\* no cached document
NilSchema == [q \in {} |-> EmptySchema]

New(opts) ==
    ApplyOptions(
        [ rootNode |-> (<<>> :> NewSchemaNode),
          predefined |-> [k \in {} |-> ""],
          customFormats |-> getBuiltInFormats,
          sampleCount |-> 0,
          maxSamples |-> 0,
          currentSchema |-> NilSchema,
          schemaVersion |-> Draft07,
          examplesEnabled |-> FALSE ],
        opts)

\* the option lists the generators of the model are built with
OptionLists ==
    { <<>>,
      <<WithPredefined("b", "datetime"), WithCustomFormat("my-date", "myDateDetector"),
        WithMaxSamples(2), WithExamples>> }

(***************************************************************************)
(* Generator                                                                *)
(***************************************************************************)
VARIABLES
    rootNode,         \* the tree: path -> SchemaNode
    predefined,       \* field name -> PredefinedType
    customFormats,    \* the detector list
    sampleCount,      \* the total sample counter
    maxSamples,       \* the cap, 0 = none
    currentSchema,    \* the cached document, NilSchema when stale
    schemaVersion,
    examplesEnabled,
    options,          \* the options New was called with
    ret,              \* what the last call returned: the error and the document
    history,          \* the bag of values merged into the tree since New or the last Load
    loaded,           \* Load has replaced the tree
    steps,            \* the calls of AddSample, AddParsedSample and Load made so far
    mu,               \* the mutex: 0 when unlocked, else the goroutine that locked it
    pc,               \* goroutine -> where it stands in its call, "idle" between calls
    call,             \* goroutine -> the call it is in: arguments, locals and results
    stable,           \* the tree and the cache as the last completed mutation left them
    marks,            \* goroutine -> the values of stable since it took the lock
    overlap,          \* some call was started while another was in progress
    objects,          \* the Schema documents in memory: address -> document
    cacheAt,          \* the address currentSchema points to, 0 when it is nil
    held              \* address -> the document GetCurrentSchema returned there

config == <<predefined, customFormats, maxSamples, schemaVersion, examplesEnabled, options>>
generator == <<rootNode, sampleCount, currentSchema>>
goroutines == <<mu, pc, call, stable, marks, overlap>>
handles == <<objects, cacheAt, held>>
vars == <<rootNode, predefined, customFormats, sampleCount, maxSamples,
          currentSchema, schemaVersion, examplesEnabled, options, ret, history, loaded, steps,
          mu, pc, call, stable, marks, overlap, objects, cacheAt, held>>

ErrNone == ""
ErrParse == "failed to parse JSON"
ErrNoSamples == "no samples added"

Return(err, doc) == [err |-> err, doc |-> doc]

\* the goroutines that call the generator
Threads == 1..NumThreads

\* a goroutine between two calls
NoCall ==
    [op |-> "", data |-> Null, schema |-> NilSchema,
     n |-> 0, capped |-> FALSE, err |-> ErrNone, doc |-> NilSchema]

\* what a completed mutation leaves for the reads: the tree and, when a Load
\* built it, the document the Load was given
Snapshot(tree, doc) == [rootNode |-> tree, document |-> doc]

\* the state New(opts...) returns the generator in
InitWith(opts) ==
        LET g == New(opts)
        IN  /\ options = opts
            /\ rootNode = g.rootNode
            /\ predefined = g.predefined
            /\ customFormats = g.customFormats
            /\ sampleCount = g.sampleCount
            /\ maxSamples = g.maxSamples
            /\ currentSchema = g.currentSchema
            /\ schemaVersion = g.schemaVersion
            /\ examplesEnabled = g.examplesEnabled
            /\ ret = Return(ErrNone, NilSchema)
            /\ history = EmptyBag
            /\ loaded = FALSE
            /\ steps = 0
            /\ mu = 0
            /\ pc = [t \in Threads |-> "idle"]
            /\ call = [t \in Threads |-> NoCall]
            /\ stable = Snapshot(g.rootNode, NilSchema)
            /\ marks = [t \in Threads |-> {}]
            /\ overlap = FALSE
            /\ objects = <<>>
            /\ cacheAt = 0
            /\ held = <<>>

Init == \E opts \in OptionLists : InitWith(opts)

\* an applyPredefinedTypes that marks the properties with a configured name
\* at every depth
applyPredefinedTypesAtAnyDepth(tree, pre) ==
    [p \in DOMAIN tree |->
        IF p # <<>> /\ p[Len(p)] \in DOMAIN pre
        THEN [tree[p] EXCEPT !.predefinedType = pre[p[Len(p)]]]
        ELSE tree[p]]

\* an applyPredefinedTypes that marks no node
applyPredefinedTypesNever(tree, pre) == tree

\* applyPredefinedTypes: the direct children of the root named in predefined
applyPredefinedTypes(tree, pre) ==
    [p \in DOMAIN tree |->
        IF Len(p) = 1 /\ p[1] \in DOMAIN pre
        THEN [tree[p] EXCEPT !.predefinedType = pre[p[1]]]
        ELSE tree[p]]

\* the cap test of AddParsedSample
CapReached == maxSamples > 0 /\ sampleCount >= maxSamples

\* an AddParsedSample that leaves the cached document as it is
AddParsedSampleKeepsCache(data) ==
    IF CapReached
    THEN /\ steps < MaxSteps
         /\ steps' = steps + 1
         /\ ret' = Return(ErrNone, NilSchema)
         /\ UNCHANGED <<generator, config, history, loaded>>
    ELSE /\ steps < MaxSteps
         /\ sampleCount' = sampleCount + 1
         /\ rootNode' = applyPredefinedTypes(
                            ObserveValue(rootNode, <<>>, data, examplesEnabled, customFormats),
                            predefined)
         /\ history' = history (+) SetToBag({data})
         /\ steps' = steps + 1
         /\ ret' = Return(ErrNone, NilSchema)
         /\ UNCHANGED <<currentSchema, config, loaded>>

\* AddParsedSample, under the lock
AddParsedSample(data) ==
    IF CapReached
    THEN /\ steps < MaxSteps
         /\ steps' = steps + 1
         /\ ret' = Return(ErrNone, NilSchema)
         /\ UNCHANGED <<generator, config, history, loaded>>
    ELSE /\ steps < MaxSteps
         /\ sampleCount' = sampleCount + 1
         /\ rootNode' = applyPredefinedTypes(
                            ObserveValue(rootNode, <<>>, data, examplesEnabled, customFormats),
                            predefined)
         /\ currentSchema' = NilSchema
         /\ history' = history (+) SetToBag({data})
         /\ steps' = steps + 1
         /\ ret' = Return(ErrNone, NilSchema)
         /\ UNCHANGED <<config, loaded>>

\* an AddSample that counts the sample before it decodes the text
AddSampleCountFirst(jsonData) ==
    LET u == Unmarshal(jsonData)
    IN  IF u.err
        THEN /\ steps < MaxSteps
             /\ steps' = steps + 1
             /\ ret' = Return(ErrParse, NilSchema)
             /\ sampleCount' = sampleCount + 1
             /\ currentSchema' = NilSchema
             /\ UNCHANGED <<rootNode, config, history, loaded>>
        ELSE AddParsedSample(u.data)

AddSample(jsonData) ==
    LET u == Unmarshal(jsonData)
    IN  IF u.err
        THEN /\ steps < MaxSteps
             /\ steps' = steps + 1
             /\ ret' = Return(ErrParse, NilSchema)
             /\ UNCHANGED <<generator, config, history, loaded>>
        ELSE AddParsedSample(u.data)

\* buildCurrentSchema: ToSchema of the root, with the $schema field set
buildCurrentSchema(tree, pick, version) ==
    LET schema == ToSchema(tree, <<>>, pick)
    IN  [schema EXCEPT ![<<>>].Schema = IF @ = "" THEN version ELSE @]

\* the documents a rebuild may produce
Rebuilds == {buildCurrentSchema(rootNode, pick, schemaVersion) : pick \in PrimaryChoices(rootNode)}

\* an encodeTo that assembles the tree on every call
encodeToAlwaysRebuilds ==
    /\ \E doc \in Rebuilds : currentSchema' = doc
    /\ ret' = Return(ErrNone, currentSchema')
    /\ UNCHANGED <<rootNode, sampleCount, config, history, loaded, steps>>

\* encodeTo: rebuild the cache when it is nil, then encode it
encodeTo ==
    /\ IF currentSchema = NilSchema
       THEN \E doc \in Rebuilds : currentSchema' = doc
       ELSE currentSchema' = currentSchema
    /\ ret' = Return(ErrNone, currentSchema')
    /\ UNCHANGED <<rootNode, sampleCount, config, history, loaded, steps>>

NoSamples ==
    /\ ret' = Return(ErrNoSamples, NilSchema)
    /\ UNCHANGED <<generator, config, history, loaded, steps>>

\* a Generate without the test of the sample counter
GenerateUnchecked == encodeTo

Generate ==
    IF sampleCount = 0 THEN NoSamples ELSE encodeTo

GenerateTo ==
    IF sampleCount = 0 THEN NoSamples ELSE encodeTo

GetCurrentSchema == encodeTo

(***************************************************************************)
(* Load                                                                     *)
(***************************************************************************)
\* a `type` that is neither a string nor a list (a number, say)
TBad == [TNil EXCEPT !.k = "bad"]

ErrUnmarshal == "failed to unmarshal schema"
ErrNotObject == "only object schemas can be loaded"
ErrLoad == "failed to load schema"

\* an encoder that treats the empty string as an empty value and leaves the
\* member out
MarshalTypeOmitEmpty(type) ==
    CASE type.k = "str" /\ type.s # "" -> [present |-> TRUE, json |-> Str(type.s)]
      [] type.k = "list" ->
           [present |-> TRUE, json |-> Arr([i \in DOMAIN type.l |-> Str(type.l[i])])]
      [] type.k = "bad" -> [present |-> TRUE, json |-> Num(70)]
      [] OTHER -> [present |-> FALSE, json |-> Null]

\* the `type` member json.Marshal writes for Schema.Type (`any`, omitempty):
\* a nil interface is left out, a string is written even when it is empty, a
\* list is written as an array of strings, a number as a number
MarshalType(type) ==
    CASE type.k = "str" -> [present |-> TRUE, json |-> Str(type.s)]
      [] type.k = "list" ->
           [present |-> TRUE, json |-> Arr([i \in DOMAIN type.l |-> Str(type.l[i])])]
      [] type.k = "bad" -> [present |-> TRUE, json |-> Num(70)]
      [] OTHER -> [present |-> FALSE, json |-> Null]

\* what json.Unmarshal leaves in Schema.Type: nil when the member is absent
\* or null, a string, a []interface{} for an array, a float64 for a number
UnmarshalType(member) ==
    IF ~member.present \/ member.json.t = "null" THEN TNil
    ELSE CASE member.json.t = "str" -> TStr(member.json.s)
           [] member.json.t = "arr" ->
                TList([i \in DOMAIN member.json.a |-> member.json.a[i].s])
           [] OTHER -> TBad

\* A schema text is kept as whether it is JSON and, per position, the
\* members of the object written there.  The other fields of Schema are
\* written when they are not empty and read back as they were written.
SchemaText(doc) ==
    [valid |-> TRUE,
     json |-> [q \in DOMAIN doc |-> [doc[q] EXCEPT !.Type = MarshalType(@)]]]
BrokenText == [valid |-> FALSE, json |-> NilSchema]

UnmarshalSchema(schemaJSON) ==
    [err |-> ~schemaJSON.valid,
     schema |-> [q \in DOMAIN schemaJSON.json |->
                    [schemaJSON.json[q] EXCEPT !.Type = UnmarshalType(@)]]]

\* the type switch of loadSchemaIntoNode: the first non-null entry of a list
RECURSIVE FirstNonNull(_)
FirstNonNull(l) ==
    IF l = <<>> THEN ""
    ELSE IF Head(l) # "null" THEN Head(l) ELSE FirstNonNull(Tail(l))

LoadTypeStr(type) ==
    CASE type.k = "str" -> type.s
      [] type.k = "list" -> FirstNonNull(type.l)
      [] OTHER -> ""

\* a count for the child that is not kept at 1 or more
childSampleCountUnclamped(schema, key, parentSampleCount) ==
    IF key \in Range(schema.Required) THEN parentSampleCount
    ELSE parentSampleCount - 1

\* the sample count loadSchemaIntoNode gives the child of a property
childSampleCount(schema, key, parentSampleCount) ==
    IF key \in Range(schema.Required) THEN parentSampleCount
    ELSE IF parentSampleCount - 1 < 1 THEN 1 ELSE parentSampleCount - 1

RECURSIVE MergeNodes(_)
\* the union of node maps with disjoint domains
MergeNodes(subs) ==
    IF subs = {} THEN [q \in {} |-> NewSchemaNode]
    ELSE LET one == CHOOSE x \in subs : TRUE
         IN  one @@ MergeNodes(subs \ {one})

\* a load that also restores the const of the document as the candidate
SeedLoadedFormatAndConst(n, typeStr, schema, parentSampleCount) ==
    LET m == IF typeStr = "string" /\ schema.Format # ""
             THEN [n EXCEPT !.candidatesNil = FALSE,
                            !.candidateFormats = <<schema.Format>>,
                            !.candidateDetectors = <<"alwaysTrue">>,
                            !.stringCount = parentSampleCount]
             ELSE n
    IN  IF schema.Const # Null
        THEN [m EXCEPT !.constSet = TRUE, !.constValue = schema.Const]
        ELSE m

\* the "string patterns" block at the end of loadSchemaIntoNode
SeedLoadedFormat(n, typeStr, schema, parentSampleCount) ==
    IF typeStr = "string" /\ schema.Format # ""
    THEN [n EXCEPT !.candidatesNil = FALSE,
                   !.candidateFormats = <<schema.Format>>,
                   !.candidateDetectors = <<"alwaysTrue">>,
                   !.stringCount = parentSampleCount]
    ELSE n

RECURSIVE loadSchemaIntoNode(_, _, _)
\* loadSchemaIntoNode on a fresh node for the part of doc at q.  The result is
\* the set of outcomes [err, nodes]: nodes are the node and what has been
\* attached below it when the call returns.  A failing call returns at once,
\* so which sibling properties are already attached depends on the order of
\* the map iteration: any set of the properties that load may precede the
\* first one that fails.
loadSchemaIntoNode(doc, q, parentSampleCount) ==
    LET schema == doc[q]
        typeStr == LoadTypeStr(schema.Type)
        node == [NewSchemaNode EXCEPT !.observedTypes[typeStr] = parentSampleCount,
                                      !.sampleCount = parentSampleCount]
        done == SeedLoadedFormat(node, typeStr, schema, parentSampleCount)
        keys == schema.Properties
        of(key) == loadSchemaIntoNode(doc, Append(q, key),
                                      childSampleCount(schema, key, parentSampleCount))
        failing == {key \in keys : \E o \in of(key) : o.err}
    IN  IF schema.Type.k \notin {"str", "list"}
        THEN {[err |-> TRUE, nodes |-> (q :> NewSchemaNode)]}
        ELSE IF typeStr = "array" /\ schema.Items
        THEN {[err |-> o.err, nodes |-> (q :> node) @@ o.nodes]
                : o \in loadSchemaIntoNode(doc, Append(q, ITEM), parentSampleCount)}
        ELSE IF typeStr = "object" /\ keys # {}
        THEN IF failing = {}
             THEN {[err |-> FALSE,
                    nodes |-> (q :> node)
                              @@ MergeNodes({(CHOOSE o \in of(key) : TRUE).nodes : key \in keys})]}
             ELSE {[err |-> TRUE,
                    nodes |-> (q :> node)
                              @@ MergeNodes({(CHOOSE o \in of(key) : TRUE).nodes : key \in before})]
                     : before \in SUBSET (keys \ failing)}
        ELSE {[err |-> FALSE, nodes |-> (q :> done)]}

\* documents written by hand
HandSchema(type) == [EmptySchema EXCEPT !.Type = type]

\* {"type":["object","string"]}
DocListRoot == (<<>> :> HandSchema(TList(<<"object", "string">>)))
\* {"type":"object","properties":{"a":{"type":"string","format":"ipv4"},
\*  "b":{"type":["integer","null"]},"c":{"type":"array","items":{"type":"string"}}},
\*  "required":["a"]}
DocHand ==
    (<<>> :> [HandSchema(TStr("object")) EXCEPT !.Properties = {"a", "b", "c"},
                                                !.Required = <<"a">>])
    @@ (<<"a">> :> [HandSchema(TStr("string")) EXCEPT !.Format = "ipv4"])
    @@ (<<"b">> :> HandSchema(TList(<<"integer", "null">>)))
    @@ (<<"c">> :> [HandSchema(TStr("array")) EXCEPT !.Items = TRUE])
    @@ (<<"c", ITEM>> :> HandSchema(TStr("string")))
\* {"type":"object","properties":{"a":{"type":"string"},"b":{"type":7}}}
DocBadType ==
    (<<>> :> [HandSchema(TStr("object")) EXCEPT !.Properties = {"a", "b"}])
    @@ (<<"a">> :> HandSchema(TStr("string")))
    @@ (<<"b">> :> HandSchema(TBad))

\* the texts handed to Load: the hand-written ones and the text the last read
\* returned
SchemaTexts ==
    {BrokenText, SchemaText(DocListRoot), SchemaText(DocHand), SchemaText(DocBadType)}
    \cup (IF ret.doc # NilSchema THEN {SchemaText(ret.doc)} ELSE {})

\* a root test that also accepts a list of types that holds "object"
rootTypeHoldsObject(schema) ==
    schema[<<>>].Type = TStr("object") \/ "object" \in Range(schema[<<>>].Type.l)

\* schema.Type != "object" fails: the root type is the string "object"
rootTypeIsObject(schema) == schema[<<>>].Type = TStr("object")

\* a Load that leaves the cache empty, so that the next read re-assembles
LoadCacheNotSeeded(schemaJSON) ==
    LET u == UnmarshalSchema(schemaJSON)
    IN  IF u.err
        THEN /\ steps < MaxSteps
             /\ steps' = steps + 1
             /\ ret' = Return(ErrUnmarshal, NilSchema)
             /\ UNCHANGED <<generator, config, history, loaded>>
        ELSE IF ~rootTypeIsObject(u.schema)
        THEN /\ steps < MaxSteps
             /\ steps' = steps + 1
             /\ ret' = Return(ErrNotObject, NilSchema)
             /\ UNCHANGED <<generator, config, history, loaded>>
        ELSE /\ steps < MaxSteps
             /\ steps < MaxLoadStep
             /\ \E o \in loadSchemaIntoNode(u.schema, <<>>, 1) :
                    /\ rootNode' = o.nodes
                    /\ IF o.err
                       THEN /\ currentSchema' = NilSchema
                            /\ sampleCount' = sampleCount
                            /\ ret' = Return(ErrLoad, NilSchema)
                       ELSE /\ currentSchema' = NilSchema
                            /\ sampleCount' = 1
                            /\ ret' = Return(ErrNone, NilSchema)
             /\ history' = EmptyBag
             /\ loaded' = TRUE
             /\ steps' = steps + 1
             /\ UNCHANGED config

Load(schemaJSON) ==
    LET u == UnmarshalSchema(schemaJSON)
    IN  IF u.err
        THEN /\ steps < MaxSteps
             /\ steps' = steps + 1
             /\ ret' = Return(ErrUnmarshal, NilSchema)
             /\ UNCHANGED <<generator, config, history, loaded>>
        ELSE IF ~rootTypeIsObject(u.schema)
        THEN /\ steps < MaxSteps
             /\ steps' = steps + 1
             /\ ret' = Return(ErrNotObject, NilSchema)
             /\ UNCHANGED <<generator, config, history, loaded>>
        ELSE /\ steps < MaxSteps
             /\ steps < MaxLoadStep
             /\ \E o \in loadSchemaIntoNode(u.schema, <<>>, 1) :
                    /\ rootNode' = o.nodes
                    /\ IF o.err
                       THEN /\ currentSchema' = NilSchema
                            /\ sampleCount' = sampleCount
                            /\ ret' = Return(ErrLoad, NilSchema)
                       ELSE /\ currentSchema' = u.schema
                            /\ sampleCount' = 1
                            /\ ret' = Return(ErrNone, NilSchema)
             /\ history' = EmptyBag
             /\ loaded' = TRUE
             /\ steps' = steps + 1
             /\ UNCHANGED config

\* one caller: every call runs from its first line to its return before the
\* next one is made
Next ==
    \/ \E jsonData \in Texts : AddSample(jsonData) /\ UNCHANGED <<goroutines, handles>>
    \/ \E data \in ParsedValues : AddParsedSample(data) /\ UNCHANGED <<goroutines, handles>>
    \/ Generate /\ UNCHANGED <<goroutines, handles>>
    \/ GenerateTo /\ UNCHANGED <<goroutines, handles>>
    \/ GetCurrentSchema /\ UNCHANGED <<goroutines, handles>>
    \/ \E schemaJSON \in SchemaTexts : Load(schemaJSON) /\ UNCHANGED <<goroutines, handles>>

Spec == Init /\ [][Next]_vars

(***************************************************************************)
(* Concurrent callers                                                       *)
(*                                                                          *)
(* Each goroutine runs one call at a time.  A call is cut into steps at the *)
(* places where it reads or writes a field of the Generator, so that two    *)
(* calls could interleave there if the mutex did not keep them apart.       *)
(***************************************************************************)
\* the texts and documents the goroutines pass
ConcTexts == {"{\"a\":\"x\"}", "{\"a\":1,\"b\":\"x\"}", "{invalid json}"}
ConcSchemaTexts ==
    {BrokenText, SchemaText(DocListRoot), SchemaText(DocHand), SchemaText(DocBadType)}

Ingestions == {"AddSample", "AddParsedSample"}
Reads == {"Generate", "GenerateTo", "GetCurrentSchema"}

\* where a call stands before it has the mutex
Outside == {"idle", "Lock"}

ErrWrite == "write failed"

Goto(t, label) == pc' = [pc EXCEPT ![t] = label] /\ UNCHANGED handles

\* a mutex that never holds anyone back
LockedNever == FALSE

\* the state of sync.Mutex
Locked == mu # 0

\* a caller makes a call in goroutine t; goroutines have no identity, so the
\* call is given to the first one that is free
Called(t) ==
    /\ pc[t] = "idle"
    /\ \A r \in Threads : r < t => pc[r] # "idle"
    /\ steps < MaxCalls
    /\ steps' = steps + 1
    /\ overlap' = (overlap \/ \E r \in Threads : pc[r] # "idle")

\* the call reaches g.mu.Lock()
Enter(t, c) ==
    /\ call' = [call EXCEPT ![t] = c]
    /\ Goto(t, "Lock")
    /\ UNCHANGED ret

\* a return before the mutex is taken
ReturnEarly(t, err) ==
    /\ ret' = Return(err, NilSchema)
    /\ UNCHANGED <<call, pc, handles>>

\* AddSample up to the Lock of AddParsedSample: json.Unmarshal, which works
\* on the arguments only
StartAddSample(t, jsonData) ==
    /\ Called(t)
    /\ LET u == Unmarshal(jsonData)
       IN  IF u.err
           THEN ReturnEarly(t, ErrParse)
           ELSE Enter(t, [NoCall EXCEPT !.op = "AddSample", !.data = u.data])
    /\ UNCHANGED <<generator, config, history, loaded, mu, stable, marks>>

StartAddParsedSample(t, data) ==
    /\ Called(t)
    /\ Enter(t, [NoCall EXCEPT !.op = "AddParsedSample", !.data = data])
    /\ UNCHANGED <<generator, config, history, loaded, mu, stable, marks>>

\* Generate, GenerateTo, GetCurrentSchema: the first statement is the Lock
StartRead(t, op) ==
    /\ Called(t)
    /\ Enter(t, [NoCall EXCEPT !.op = op])
    /\ UNCHANGED <<generator, config, history, loaded, mu, stable, marks>>

\* Load up to its Lock: json.Unmarshal and the test of the root type
StartLoad(t, schemaJSON) ==
    /\ Called(t)
    /\ LET u == UnmarshalSchema(schemaJSON)
       IN  IF u.err
           THEN ReturnEarly(t, ErrUnmarshal)
           ELSE IF ~rootTypeIsObject(u.schema)
           THEN ReturnEarly(t, ErrNotObject)
           ELSE Enter(t, [NoCall EXCEPT !.op = "Load", !.schema = u.schema])
    /\ UNCHANGED <<generator, config, history, loaded, mu, stable, marks>>

\* g.mu.Lock()
Lock(t) ==
    /\ pc[t] = "Lock"
    /\ ~Locked
    /\ mu' = t
    /\ marks' = [marks EXCEPT ![t] = {stable}]
    /\ Goto(t, CASE call[t].op \in Ingestions -> "cap"
                 [] call[t].op \in {"Generate", "GenerateTo"} -> "check"
                 [] call[t].op = "GetCurrentSchema" -> "build"
                 [] call[t].op = "Load" -> "reset")
    /\ UNCHANGED <<generator, config, history, loaded, steps, ret, call, stable, overlap>>

\* AddParsedSample: the cap test; the counter is read for the increment
CapCheck(t) ==
    /\ pc[t] = "cap"
    /\ IF CapReached
       THEN call' = [call EXCEPT ![t].capped = TRUE] /\ Goto(t, "Unlock")
       ELSE call' = [call EXCEPT ![t].n = sampleCount] /\ Goto(t, "count")
    /\ UNCHANGED <<generator, config, history, loaded, steps, ret, mu, stable, marks, overlap>>

\* g.sampleCount++
Count(t) ==
    /\ pc[t] = "count"
    /\ sampleCount' = call[t].n + 1
    /\ Goto(t, "observe")
    /\ UNCHANGED <<rootNode, currentSchema, config, history, loaded, steps, ret, mu,
                   call, stable, marks, overlap>>

\* g.rootNode.ObserveValue(data, g.examplesEnabled, g.customFormats)
Observe(t) ==
    /\ pc[t] = "observe"
    /\ rootNode' = ObserveValue(rootNode, <<>>, call[t].data, examplesEnabled, customFormats)
    /\ history' = history (+) SetToBag({call[t].data})
    /\ Goto(t, "predefined")
    /\ UNCHANGED <<sampleCount, currentSchema, config, loaded, steps, ret, mu,
                   call, stable, marks, overlap>>

\* g.applyPredefinedTypes()
Predefined(t) ==
    /\ pc[t] = "predefined"
    /\ rootNode' = applyPredefinedTypes(rootNode, predefined)
    /\ Goto(t, "invalidate")
    /\ UNCHANGED <<sampleCount, currentSchema, config, history, loaded, steps, ret, mu,
                   call, stable, marks, overlap>>

\* an AddParsedSample that leaves the cache as it is
InvalidateSkipped(t) ==
    /\ pc[t] = "invalidate"
    /\ Goto(t, "Unlock")
    /\ UNCHANGED <<generator, config, history, loaded, steps, ret, mu,
                   call, stable, marks, overlap>>

\* g.currentSchema = nil
Invalidate(t) ==
    /\ pc[t] = "invalidate"
    /\ currentSchema' = NilSchema
    /\ Goto(t, "Unlock")
    /\ UNCHANGED <<rootNode, sampleCount, config, history, loaded, steps, ret, mu,
                   call, stable, marks, overlap>>

\* Generate and GenerateTo: the test of the sample counter
Check(t) ==
    /\ pc[t] = "check"
    /\ IF sampleCount = 0
       THEN call' = [call EXCEPT ![t].err = ErrNoSamples] /\ Goto(t, "Unlock")
       ELSE Goto(t, "build") /\ UNCHANGED call
    /\ UNCHANGED <<generator, config, history, loaded, steps, ret, mu, stable, marks, overlap>>

\* if g.currentSchema == nil { g.currentSchema = g.buildCurrentSchema() }
Build(t) ==
    /\ pc[t] = "build"
    /\ IF currentSchema = NilSchema
       THEN \E doc \in Rebuilds : currentSchema' = doc
       ELSE currentSchema' = currentSchema
    /\ Goto(t, "encode")
    /\ UNCHANGED <<rootNode, sampleCount, config, history, loaded, steps, ret, mu,
                   call, stable, marks, overlap>>

\* the cached document is encoded (Generate, GenerateTo) or returned
\* (GetCurrentSchema); the writer handed to GenerateTo may fail
Encode(t) ==
    /\ pc[t] = "encode"
    /\ \/ call' = [call EXCEPT ![t].doc = currentSchema]
       \/ /\ call[t].op = "GenerateTo"
          /\ call' = [call EXCEPT ![t].err = ErrWrite]
    /\ Goto(t, "Unlock")
    /\ UNCHANGED <<generator, config, history, loaded, steps, ret, mu, stable, marks, overlap>>

\* Load: g.rootNode = NewSchemaNode(); g.currentSchema = nil
Reset(t) ==
    /\ pc[t] = "reset"
    /\ rootNode' = (<<>> :> NewSchemaNode)
    /\ currentSchema' = NilSchema
    /\ history' = EmptyBag
    /\ loaded' = TRUE
    /\ Goto(t, "loadInto")
    /\ UNCHANGED <<sampleCount, config, steps, ret, mu, call, stable, marks, overlap>>

\* Load: g.loadSchemaIntoNode(g.rootNode, &schema, 1)
LoadInto(t) ==
    /\ pc[t] = "loadInto"
    /\ \E o \in loadSchemaIntoNode(call[t].schema, <<>>, 1) :
          /\ rootNode' = o.nodes
          /\ IF o.err
             THEN call' = [call EXCEPT ![t].err = ErrLoad] /\ Goto(t, "Unlock")
             ELSE Goto(t, "setCount") /\ UNCHANGED call
    /\ UNCHANGED <<sampleCount, currentSchema, config, history, loaded, steps, ret, mu,
                   stable, marks, overlap>>

\* Load: g.sampleCount = 1
SetCount(t) ==
    /\ pc[t] = "setCount"
    /\ sampleCount' = 1
    /\ Goto(t, "setCache")
    /\ UNCHANGED <<rootNode, currentSchema, config, history, loaded, steps, ret, mu,
                   call, stable, marks, overlap>>

\* Load: g.currentSchema = &schema
SetCache(t) ==
    /\ pc[t] = "setCache"
    /\ currentSchema' = call[t].schema
    /\ Goto(t, "Unlock")
    /\ UNCHANGED <<rootNode, sampleCount, config, history, loaded, steps, ret, mu,
                   call, stable, marks, overlap>>

\* what the reads are left with when the call of t returns: a call that
\* merged a sample or loaded a document has made a new tree
Completed(t) ==
    CASE call[t].op \in Ingestions /\ ~call[t].capped ->
            Snapshot(rootNode, NilSchema)
      [] call[t].op = "Load" ->
            Snapshot(rootNode, IF call[t].err = ErrNone THEN call[t].schema ELSE NilSchema)
      [] OTHER -> stable

\* a deferred Unlock that is not run when the call returns an error
UnlockOnSuccess(t) ==
    /\ pc[t] = "Unlock"
    /\ mu' = IF call[t].err # ErrNone THEN mu ELSE 0
    /\ ret' = Return(call[t].err, call[t].doc)
    /\ call' = [call EXCEPT ![t] = NoCall]
    /\ Goto(t, "idle")
    /\ stable' = Completed(t)
    /\ marks' = [r \in Threads |->
                    IF r = t THEN {}
                    ELSE IF pc[r] \notin Outside THEN marks[r] \cup {Completed(t)}
                    ELSE marks[r]]
    /\ UNCHANGED <<generator, config, history, loaded, steps, overlap>>

\* defer g.mu.Unlock(), and the return.  A mutation is completed here: the
\* tree and the cache it leaves are noted, also for the calls that are past
\* their Lock.
Unlock(t) ==
    /\ pc[t] = "Unlock"
    /\ mu' = 0
    /\ ret' = Return(call[t].err, call[t].doc)
    /\ call' = [call EXCEPT ![t] = NoCall]
    /\ Goto(t, "idle")
    /\ stable' = Completed(t)
    /\ marks' = [r \in Threads |->
                    IF r = t THEN {}
                    ELSE IF pc[r] \notin Outside THEN marks[r] \cup {Completed(t)}
                    ELSE marks[r]]
    /\ UNCHANGED <<generator, config, history, loaded, steps, overlap>>

\* the steps of the call goroutine t is in
Run(t) ==
    \/ Lock(t)
    \/ CapCheck(t)
    \/ Count(t)
    \/ Observe(t)
    \/ Predefined(t)
    \/ Invalidate(t)
    \/ Check(t)
    \/ Build(t)
    \/ Encode(t)
    \/ Reset(t)
    \/ LoadInto(t)
    \/ SetCount(t)
    \/ SetCache(t)
    \/ Unlock(t)

NextConc ==
    \E t \in Threads :
        \/ \E jsonData \in ConcTexts : StartAddSample(t, jsonData)
        \/ \E data \in ParsedValues : StartAddParsedSample(t, data)
        \/ \E op \in Reads : StartRead(t, op)
        \/ \E schemaJSON \in ConcSchemaTexts : StartLoad(t, schemaJSON)
        \/ Run(t)

SpecConc == Init /\ [][NextConc]_vars

\* the same goroutines making MaxFairCalls calls in all
NextFair ==
    \E t \in Threads :
        \/ \E jsonData \in ConcTexts : steps < MaxFairCalls /\ StartAddSample(t, jsonData)
        \/ \E data \in ParsedValues : steps < MaxFairCalls /\ StartAddParsedSample(t, data)
        \/ \E op \in Reads : steps < MaxFairCalls /\ StartRead(t, op)
        \/ \E schemaJSON \in ConcSchemaTexts : steps < MaxFairCalls /\ StartLoad(t, schemaJSON)
        \/ Run(t)

\* the scheduler does not stop while some goroutine can take a step of its
\* call
FairSpec == Init /\ [][NextFair]_vars /\ WF_vars(\E t \in Threads : Run(t))

(***************************************************************************)
(* What the samples say, read off the ingested values themselves.           *)
(***************************************************************************)
Ingested == BagToSet(history)

RECURSIVE ObservedAt(_, _)
RECURSIVE ObservedInItems(_, _)
\* the values that reach the node at relative path p, in order, when a node
\* is shown value: array elements all reach the item node, a property value
\* reaches the property's node unless it is null
ObservedAt(value, p) ==
    IF p = <<>> THEN <<value>>
    ELSE IF Head(p) = ITEM
         THEN IF value.t = "arr" THEN ObservedInItems(value.a, Tail(p)) ELSE <<>>
         ELSE IF value.t = "obj" /\ Head(p) \in DOMAIN value.o /\ value.o[Head(p)] # Null
              THEN ObservedAt(value.o[Head(p)], Tail(p))
              ELSE <<>>

ObservedInItems(arr, p) ==
    IF arr = <<>> THEN <<>>
    ELSE ObservedAt(Head(arr), p) \o ObservedInItems(Tail(arr), p)

\* the distinct values observed at p over all ingested samples
ValuesAt(p) == UNION {Range(ObservedAt(v, p)) : v \in Ingested}

\* the key Last(p) occurs with the value null in an object shown to the parent of p
NullIn(value, p) ==
    /\ p # <<>>
    /\ p[Len(p)] # ITEM
    /\ \E u \in Range(ObservedAt(value, SubSeq(p, 1, Len(p) - 1))) :
           u.t = "obj" /\ p[Len(p)] \in DOMAIN u.o /\ u.o[p[Len(p)]] = Null

Parent(p) == SubSeq(p, 1, Len(p) - 1)
Last(p) == p[Len(p)]
IsProperty(p) == p # <<>> /\ Last(p) # ITEM

\* the paths a sample of the model can reach
Positions ==
    {<<>>, <<"a">>, <<"b">>, <<"a", "c">>, <<"a", ITEM>>, <<"a", ITEM, "b">>,
     <<"a", ITEM, "c">>, <<ITEM>>}

\* the documents a read may assemble from the tree as it stands
Assemblies ==
    {[pick |-> pick, doc |-> buildCurrentSchema(rootNode, pick, schemaVersion)]
        : pick \in PrimaryChoices(rootNode)}

(***************************************************************************)
(* C1                                                                       *)
(***************************************************************************)
KeysNonNull(value) == {k \in DOMAIN value.o : value.o[k] # Null}
KeysInEvery == {k \in Range(KeyOrder) : \A v \in Ingested : k \in KeysNonNull(v)}
KeysInSome == UNION {KeysNonNull(v) : v \in Ingested}

OnlyObjectsIngested ==
    /\ ~loaded
    /\ DOMAIN predefined = {}
    /\ Ingested # {}
    /\ \A v \in Ingested : v.t = "obj"

\* C1: with no Load, no predefined overrides and only JSON objects ingested,
\* the required list of the root is the sorted list of the keys that were
\* non-null in every sample, and a key that was non-null in some samples only
\* is a property that is not required.
C1_RequiredIsEverySample ==
    OnlyObjectsIngested =>
        \A a \in Assemblies :
            /\ a.doc[<<>>].Required = SortStrings(KeyOrder, KeysInEvery)
            /\ \A k \in KeysInSome \ KeysInEvery :
                   /\ k \in a.doc[<<>>].Properties
                   /\ k \notin Range(a.doc[<<>>].Required)

\* several objects ingested, one key in all of them and one in some only
C1_Witness ==
    /\ OnlyObjectsIngested
    /\ BagCardinality(history) >= 2
    /\ KeysInEvery # {}
    /\ KeysInSome \ KeysInEvery # {}

(***************************************************************************)
(* C2                                                                       *)
(***************************************************************************)
\* C2 as claimed: every child, arrayItemNode included, was observed at most
\* as often as its parent.
C2_ChildCountAtMostParent ==
    \A p \in DOMAIN rootNode :
        p # <<>> => rootNode[p].sampleCount <= rootNode[Parent(p)].sampleCount

\* C2, amended: a child reached through objectProperties was observed at
\* most as often as its parent; an arrayItemNode counts every element of
\* every array shown to its parent and is not bound by the parent's count.
C2_PropertyCountAtMostParent ==
    \A p \in DOMAIN rootNode :
        IsProperty(p) => rootNode[p].sampleCount <= rootNode[Parent(p)].sampleCount

\* a property seen in some but not all observations of its parent, and an
\* item node that saw more elements than its parent saw arrays
C2_Witness ==
    /\ \E p \in DOMAIN rootNode :
           /\ IsProperty(p)
           /\ rootNode[p].sampleCount > 0
           /\ rootNode[p].sampleCount < rootNode[Parent(p)].sampleCount
    /\ \E p \in DOMAIN rootNode :
           /\ p # <<>> /\ Last(p) = ITEM
           /\ rootNode[p].sampleCount > rootNode[Parent(p)].sampleCount

(***************************************************************************)
(* C3                                                                       *)
(***************************************************************************)
NonNullValuesAt(p) == {v \in ValuesAt(p) : v # Null}
PrimitiveValuesAt(p) ==
    {v \in ValuesAt(p) :
        getPrimitiveType(v) \in {"string", "integer", "number", "boolean"}}

\* C3 as claimed: a node without override carries const iff all its non-null
\* observations had the same value.
C3_ConstIffNonNullIdentical ==
    \A a \in Assemblies : \A p \in DOMAIN a.doc :
        rootNode[p].predefinedType = "" =>
            (a.doc[p].Const # Null <=> Cardinality(NonNullValuesAt(p)) = 1)

\* C3, amended: a node without override carries const iff it has observed a
\* string, integer, number or boolean and all the values of these types it
\* has observed are the same one, which is the const; arrays, objects and
\* nulls neither give nor take a const.  The observations are all those made
\* since the tree was built, so a second primitive value removes const from
\* every later schema, whatever is observed afterwards.
C3_ConstIffPrimitivesIdentical ==
    \A a \in Assemblies : \A p \in DOMAIN a.doc :
        rootNode[p].predefinedType = "" =>
            /\ a.doc[p].Const # Null <=> Cardinality(PrimitiveValuesAt(p)) = 1
            /\ a.doc[p].Const # Null => a.doc[p].Const \in PrimitiveValuesAt(p)

\* a node that saw a value, another one and the first again carries no const,
\* and a node that saw one string and an array carries the string as const
C3_Witness ==
    /\ \E v \in Ingested : \E p \in DOMAIN rootNode :
           LET seen == ObservedAt(v, p)
           IN  /\ Len(seen) >= 3
               /\ seen[1] # seen[2]
               /\ seen[3] = seen[1]
               /\ \A a \in Assemblies : p \in DOMAIN a.doc /\ a.doc[p].Const = Null
    /\ \E a \in Assemblies : \E p \in DOMAIN a.doc :
           /\ rootNode[p].predefinedType = ""
           /\ a.doc[p].Const # Null
           /\ Cardinality(NonNullValuesAt(p)) > 1

(***************************************************************************)
(* C4                                                                       *)
(***************************************************************************)
Samples == {Decoded[text] : text \in DOMAIN Decoded}

\* the step ingests value
Ingests(value) == history' # history /\ history' = history (+) SetToBag({value})

RECURSIVE TimesObserved(_, _)
\* how many values of the ingested samples in S reached the node at p
TimesObserved(S, p) ==
    IF S = {} THEN 0
    ELSE LET v == CHOOSE x \in S : TRUE
         IN  CopiesIn(v, history) * Len(ObservedAt(v, p)) + TimesObserved(S \ {v}, p)

NullSomewhere(p) == \E v \in Ingested : NullIn(v, p)

HasNullType(schema) == schema.Type.s = "null" \/ "null" \in Range(schema.Type.l)

\* what a node has counted: sampleCount, observedTypes and the const fields
Counted(n) ==
    <<n.sampleCount, n.stringCount, n.observedTypes, n.constSet, n.constDiffer,
      n.constValue, n.candidatesNil, n.candidateFormats, n.firstValue>>

\* a sample that shows the key of p as null, and with no other value, leaves
\* what the node at p has counted as it was
C4_NullLeavesChild ==
    \A v \in Samples :
        Ingests(v) =>
            \A p \in DOMAIN rootNode :
                (NullIn(v, p) /\ ObservedAt(v, p) = <<>>) =>
                    /\ p \in DOMAIN rootNode'
                    /\ Counted(rootNode'[p]) = Counted(rootNode[p])

\* in a tree built by observation, a property node counts the non-null
\* values only, has counted no null, and keeps the const candidate of its
\* non-null values; a key null in some sample is never required, whatever
\* was loaded before, and has no "null" in its type
C4_NullNotCounted ==
    \A p \in DOMAIN rootNode :
        IsProperty(p) =>
            /\ ~loaded =>
                   /\ rootNode[p].sampleCount = TimesObserved(Ingested, p)
                   /\ rootNode[p].observedTypes["null"] = 0
                   /\ (rootNode[p].constSet /\ ~rootNode[p].constDiffer)
                          <=> Cardinality(PrimitiveValuesAt(p)) = 1
            /\ NullSomewhere(p) =>
                   \A a \in Assemblies :
                       /\ Parent(p) \in DOMAIN a.doc =>
                              Last(p) \notin Range(a.doc[Parent(p)].Required)
                       /\ (~loaded /\ p \in DOMAIN a.doc) => ~HasNullType(a.doc[p])

\* C4: an object key whose value is null in a sample is not observed into
\* its child node for that sample (sampleCount, observedTypes and the const
\* fields of the child stay as they were), so a key that was null in some
\* sample is never required, its type never holds "null", and the const of
\* its non-null values survives.
C4_NullKeyNotObserved == [][C4_NullLeavesChild]_vars /\ []C4_NullNotCounted

\* a key seen with one string and with null: the child counted one sample,
\* keeps the string as const and is an optional property of type string
C4_Witness ==
    /\ ~loaded
    /\ \E p \in DOMAIN rootNode :
           /\ IsProperty(p)
           /\ NullSomewhere(p)
           /\ rootNode[p].sampleCount = 1
           /\ rootNode[Parent(p)].sampleCount >= 2
           /\ rootNode[p].predefinedType = ""
           /\ \A a \in Assemblies :
                  /\ p \in DOMAIN a.doc
                  /\ a.doc[p].Const # Null
                  /\ a.doc[p].Type = TStr("string")
                  /\ Last(p) \in a.doc[Parent(p)].Properties
                  /\ Last(p) \notin Range(a.doc[Parent(p)].Required)

(***************************************************************************)
(* C5                                                                       *)
(***************************************************************************)
\* the key of p was shown to its parent, and with the value null every time
NullOnly(p) == IsProperty(p) /\ NullSomewhere(p) /\ ValuesAt(p) = {}

\* C5 as claimed: a key that was null whenever it occurred has no child node
\* and is in the properties of no generated schema.
C5_NullOnlyKeyAbsent ==
    ~loaded =>
        \A p \in Positions :
            NullOnly(p) =>
                /\ p \notin DOMAIN rootNode
                /\ \A a \in Assemblies :
                       Parent(p) \in DOMAIN a.doc =>
                           Last(p) \notin a.doc[Parent(p)].Properties

\* C5, amended: in a tree built by observation, a key that was null whenever
\* it occurred has a child node that was never observed (sampleCount 0, no
\* observed type, no const, no format candidates); every schema that
\* describes its parent as an object lists the key in properties and never
\* in required, and the schema of the key itself has the empty type and no
\* const or format unless the key has a predefined type.
C5_NullOnlyKeyUnobserved ==
    ~loaded =>
        \A p \in Positions :
            NullOnly(p) =>
                /\ p \in DOMAIN rootNode
                /\ rootNode[p].sampleCount = 0
                /\ ObservedTypeNames(rootNode[p]) = {}
                /\ ~rootNode[p].constSet
                /\ rootNode[p].candidatesNil
                /\ \A a \in Assemblies :
                       (Parent(p) \in DOMAIN a.doc
                            /\ a.doc[Parent(p)].Type = TStr("object")) =>
                           /\ Last(p) \in a.doc[Parent(p)].Properties
                           /\ Last(p) \notin Range(a.doc[Parent(p)].Required)
                           /\ p \in DOMAIN a.doc
                           /\ rootNode[p].predefinedType = "" =>
                                  a.doc[p] = [EmptySchema EXCEPT !.Type = TStr("")]

\* some key was null whenever it occurred and is a property of the schema
C5_Witness ==
    /\ ~loaded
    /\ \E p \in Positions :
           /\ NullOnly(p)
           /\ rootNode[p].predefinedType = ""
           /\ \A a \in Assemblies :
                  /\ p \in DOMAIN a.doc
                  /\ Last(p) \in a.doc[Parent(p)].Properties

(***************************************************************************)
(* C6                                                                       *)
(***************************************************************************)
BatchFormat(p) == applyStringPatternsBatch(rootNode[p], EmptySchema, customFormats).Format

\* C6 as claimed: at every node of a tree built by observation whose primary
\* type is string, the emitted format is the one of the batch rule.
C6_FormatIsBatchFormat ==
    ~loaded =>
        \A a \in Assemblies : \A p \in DOMAIN a.doc :
            a.pick[p] = "string" => a.doc[p].Format = BatchFormat(p)

\* C6, amended: at every node of a tree built by observation that has no
\* predefined type and whose primary type is string, the emitted format is
\* the name of the first detector of the list that matches every string
\* observed at the node, and there is no format if no detector matches them
\* all: the incremental elimination agrees with the batch rule.  A node with
\* a predefined type emits the format of that type whatever it observed.
C6_FormatIsBatchFormatNoOverride ==
    ~loaded =>
        \A a \in Assemblies : \A p \in DOMAIN a.doc :
            (rootNode[p].predefinedType = "" /\ a.pick[p] = "string") =>
                a.doc[p].Format = BatchFormat(p)

\* a node that observed two different strings, of which the first matched
\* two detectors, and emits the second of them, which matches both strings
C6_Witness ==
    /\ ~loaded
    /\ \E a \in Assemblies : \E p \in DOMAIN a.doc :
           /\ rootNode[p].predefinedType = ""
           /\ a.pick[p] = "string"
           /\ {S_MAPPED, S_V4} \subseteq rootNode[p].stringValues
           /\ a.doc[p].Format = "ipv4"

(***************************************************************************)
(* C7                                                                       *)
(***************************************************************************)
\* the step is an AddSample or AddParsedSample that observed a value
Ingesting == history' # history /\ history' # EmptyBag

\* sub is what is left of seq after some entries were removed; the names of
\* a format list are distinct
IsSubsequence(sub, seq) == sub = SelectSeq(seq, LAMBDA x : x \in Range(sub))

C7_Shrinks ==
    Ingesting =>
        \A p \in DOMAIN rootNode :
            ~rootNode[p].candidatesNil =>
                /\ p \in DOMAIN rootNode'
                /\ ~rootNode'[p].candidatesNil
                /\ IsSubsequence(rootNode'[p].candidateFormats,
                                 rootNode[p].candidateFormats)
                /\ IsSubsequence(rootNode'[p].candidateDetectors,
                                 rootNode[p].candidateDetectors)

\* C7: at every node, once candidateFormats has been initialised, each later
\* observation leaves it a subsequence of what it was: no entry is added, the
\* survivors keep their order, and an empty list stays empty.
C7_CandidatesOnlyShrink == [][C7_Shrinks]_vars

\* a node whose list became empty and that has also observed a string some
\* detectors match, and a node whose list shrank to one survivor
C7_Witness ==
    /\ \E p \in DOMAIN rootNode :
           /\ ~rootNode[p].candidatesNil
           /\ rootNode[p].candidateFormats = <<>>
           /\ {S_PLAIN, S_MAPPED} \subseteq rootNode[p].stringValues
    /\ \E p \in DOMAIN rootNode :
           /\ rootNode[p].candidateFormats = <<"ipv4">>
           /\ {S_V4, S_MAPPED} \subseteq rootNode[p].stringValues

(***************************************************************************)
(* C8                                                                       *)
(***************************************************************************)
\* a string that none of the configured detectors matches was observed at p
UnmatchedStringAt(p) ==
    \E v \in ValuesAt(p) :
        /\ v.t = "str"
        /\ \A i \in DOMAIN customFormats : ~Detect(customFormats[i].Detector, v.s)

\* C8 as claimed: with no Load, a position that has observed a string no
\* detector matches has no format in any schema.
C8_UnmatchedStringNoFormat ==
    ~loaded =>
        \A a \in Assemblies : \A p \in DOMAIN a.doc :
            UnmatchedStringAt(p) => a.doc[p].Format = ""

\* C8, amended: with no Load, a position without a predefined type that has
\* observed a string no configured detector matches has no format in any
\* schema generated afterwards, whatever strings are ingested later.  A
\* position with a predefined type keeps the format of that type.
C8_UnmatchedStringNoFormatNoOverride ==
    ~loaded =>
        \A a \in Assemblies : \A p \in DOMAIN a.doc :
            (rootNode[p].predefinedType = "" /\ UnmatchedStringAt(p)) =>
                a.doc[p].Format = ""

\* a string position that observed an unmatched string and a string that
\* detectors match, and has no format
C8_Witness ==
    /\ ~loaded
    /\ \E a \in Assemblies : \E p \in DOMAIN a.doc :
           /\ rootNode[p].predefinedType = ""
           /\ a.pick[p] = "string"
           /\ UnmatchedStringAt(p)
           /\ Str(S_MAPPED) \in ValuesAt(p)
           /\ a.doc[p].Format = ""

(***************************************************************************)
(* C9                                                                       *)
(***************************************************************************)
\* C9 as claimed: with no sample ingested, Generate, GenerateTo and
\* GetCurrentSchema fail with the no-samples error and change nothing.
C9_ReadsFailWithoutSamples ==
    [][(sampleCount = 0 /\ (Generate \/ GenerateTo \/ GetCurrentSchema)) =>
           (ret'.err = ErrNoSamples /\ UNCHANGED generator)]_vars

C9_ReadStep ==
    sampleCount = 0 =>
        /\ (Generate \/ GenerateTo) =>
               (ret'.err = ErrNoSamples /\ UNCHANGED generator)
        /\ GetCurrentSchema =>
               /\ ret'.err = ErrNone
               /\ ret'.doc # NilSchema
               /\ ret'.doc \in Rebuilds \cup {currentSchema}
               /\ currentSchema' = ret'.doc
               /\ UNCHANGED <<rootNode, sampleCount>>

\* C9, amended: with no sample ingested, Generate and GenerateTo fail with
\* the no-samples error and leave the tree, the sample counter and the cache
\* as they were.  GetCurrentSchema has no error to return: it returns the
\* document assembled from the tree as it stands (the cached one if there is
\* one) and stores it in the cache; the tree and the counter are unchanged.
C9_GenerateFailsWithoutSamples == [][C9_ReadStep]_vars

\* Generate has failed for want of samples after GetCurrentSchema filled the
\* cache, and the cache is still there
C9_Witness ==
    /\ sampleCount = 0
    /\ ret.err = ErrNoSamples
    /\ currentSchema # NilSchema

(***************************************************************************)
(* C10                                                                      *)
(***************************************************************************)
C10_ParseErrorStep ==
    /\ \A text \in Undecodable : AddSample(text) => ret'.err = ErrParse
    /\ ret'.err = ErrParse => UNCHANGED generator

\* C10: AddSample with text that is not JSON returns the parse error, and a
\* call that returns it leaves the sample counter, every node of the tree
\* and the cached document as they were.
C10_BadTextChangesNothing == [][C10_ParseErrorStep]_vars

\* the parse error was returned to a generator that holds samples and a
\* cached document
C10_Witness ==
    /\ ret.err = ErrParse
    /\ sampleCount > 0
    /\ history # EmptyBag
    /\ currentSchema # NilSchema

(***************************************************************************)
(* C11                                                                      *)
(***************************************************************************)
C11_CappedStep ==
    CapReached =>
        /\ \A jsonData \in Texts :
               AddSample(jsonData) => (ret'.err = ErrNone /\ UNCHANGED generator)
        /\ \A data \in ParsedValues :
               AddParsedSample(data) => (ret'.err = ErrNone /\ UNCHANGED generator)

\* C11: once the sample counter has reached the cap, every AddSample and
\* AddParsedSample call returns nil, whatever its input, and leaves the
\* counter, the tree and the cached document as they were.
C11_CappedCallsSucceed == [][C11_CappedStep]_vars

\* what does hold at the cap: the tree, the counter and the cache are left
\* alone by every AddSample and AddParsedSample, and a decodable sample
\* returns nil
C11_CappedCallsChangeNothing ==
    [][CapReached =>
           /\ \A jsonData \in Texts :
                  AddSample(jsonData) =>
                      /\ UNCHANGED generator
                      /\ ret'.err = IF jsonData \in Undecodable THEN ErrParse ELSE ErrNone
           /\ \A data \in ParsedValues :
                  AddParsedSample(data) => (ret'.err = ErrNone /\ UNCHANGED generator)]_vars

\* AddSample has returned the parse error to a generator at its cap
C11_Witness ==
    /\ CapReached
    /\ ret.err = ErrParse

(***************************************************************************)
(* C12                                                                      *)
(***************************************************************************)
LoadErrors == {ErrUnmarshal, ErrNotObject, ErrLoad}

\* C12: Load is all-or-nothing: a Load that returns an error, whichever it
\* is, leaves the tree, the sample counter and the cached document exactly
\* as they were before the call.
C12_FailedLoadChangesNothing ==
    [][ret'.err \in LoadErrors => UNCHANGED generator]_vars

\* what does hold: a Load that fails before the lock is taken (undecodable
\* text, root that is not "object") changes nothing, and a Load that fails
\* inside loadSchemaIntoNode leaves the sample counter alone
C12_EarlyFailureChangesNothing ==
    [][/\ ret'.err \in {ErrUnmarshal, ErrNotObject} => UNCHANGED generator
       /\ ret'.err = ErrLoad => UNCHANGED sampleCount]_vars

\* a Load has failed on a nested type and left a generator that holds
\* samples with a tree that has lost them and no cached document
C12_Witness ==
    /\ ret.err = ErrLoad
    /\ sampleCount > 0
    /\ rootNode[<<>>].sampleCount = 1
    /\ history = EmptyBag

(***************************************************************************)
(* C13                                                                      *)
(***************************************************************************)
C13_RootStep ==
    \A schemaJSON \in SchemaTexts :
        (/\ Load(schemaJSON)
         /\ schemaJSON.valid
         /\ UnmarshalSchema(schemaJSON).schema[<<>>].Type # TStr("object")) =>
            (ret'.err = ErrNotObject /\ UNCHANGED generator)

\* C13: Load of a document whose root type is not exactly the string
\* "object" (a list of types that holds "object" included) fails with the
\* error that only object schemas can be loaded, and the tree, the counter
\* and the cache are as before the call.
C13_NonObjectRootRejected == [][C13_RootStep]_vars

\* the root-type error was returned to a generator that holds samples and a
\* cached document
C13_Witness ==
    /\ ret.err = ErrNotObject
    /\ history # EmptyBag
    /\ currentSchema # NilSchema

(***************************************************************************)
(* C14                                                                      *)
(***************************************************************************)
\* the node holds nothing that an observation leaves behind
Unobserved(n) ==
    /\ ~n.constSet /\ ~n.constDiffer
    /\ n.firstValue = Null
    /\ n.stringValues = {}
    /\ n.predefinedType = ""

C14_LoadStep ==
    \A schemaJSON \in SchemaTexts :
        (Load(schemaJSON) /\ ret'.err = ErrNone) =>
            /\ sampleCount' = 1
            /\ currentSchema' = UnmarshalSchema(schemaJSON).schema
            /\ DOMAIN rootNode' \subseteq DOMAIN UnmarshalSchema(schemaJSON).schema
            /\ \A p \in DOMAIN rootNode' :
                   /\ Unobserved(rootNode'[p])
                   /\ rootNode'[p].sampleCount = 1

C14_ReadStep ==
    (/\ Generate \/ GenerateTo \/ GetCurrentSchema
     /\ currentSchema # NilSchema
     /\ sampleCount > 0) =>
        /\ ret'.err = ErrNone
        /\ ret'.doc = currentSchema
        /\ currentSchema' = currentSchema

\* C14: a successful Load leaves the sample counter at 1 and a tree made of
\* the positions of the loaded document only, none of whose nodes holds
\* anything observed before, and keeps the loaded document as the cached
\* one; a read made while a document is cached and the counter is not 0
\* returns that document, so the first read after Load returns the loaded
\* document, not an assembly of the rebuilt tree.
C14_LoadReplacesAndSeedsCache == [][C14_LoadStep /\ C14_ReadStep]_vars

\* a read after Load has returned the loaded document, which no assembly of
\* the rebuilt tree equals
C14_Witness ==
    /\ loaded
    /\ history = EmptyBag
    /\ sampleCount = 1
    /\ ret.err = ErrNone
    /\ ret.doc # NilSchema
    /\ ret.doc = currentSchema
    /\ ret.doc \notin Rebuilds

(***************************************************************************)
(* C15                                                                      *)
(***************************************************************************)
\* the generator is as a successful Load of the cached document leaves it
FreshlyLoaded ==
    /\ currentSchema # NilSchema
    /\ rootTypeIsObject(currentSchema)
    /\ sampleCount = 1
    /\ \E o \in loadSchemaIntoNode(currentSchema, <<>>, 1) : ~o.err /\ o.nodes = rootNode

RECURSIVE HasRequiredFields(_, _, _)
\* value has, at every object level of doc below q that it reaches, the
\* required fields of doc, and besides them only fields doc does not declare
HasRequiredFields(value, doc, q) ==
    IF doc[q].Type = TStr("object")
    THEN /\ value.t = "obj"
         /\ Range(doc[q].Required) \subseteq KeysNonNull(value)
         /\ \A k \in KeysNonNull(value) :
                IF k \in Range(doc[q].Required)
                THEN HasRequiredFields(value.o[k], doc, Append(q, k))
                ELSE k \notin doc[q].Properties
    ELSE IF doc[q].Type = TStr("array")
    THEN /\ value.t = "arr"
         /\ doc[q].Items =>
                \A i \in DOMAIN value.a : HasRequiredFields(value.a[i], doc, Append(q, ITEM))
    ELSE value.t \notin {"obj", "arr", "null"}

ObjectNodes(doc) == {q \in DOMAIN doc : doc[q].Type = TStr("object")}

\* the step ingests, into a freshly loaded generator, a sample with the
\* required fields of the loaded document
C15_Resumes(v) == FreshlyLoaded /\ Ingests(v) /\ HasRequiredFields(v, currentSchema, <<>>)

C16_Generated == ret.doc # NilSchema /\ rootTypeIsObject(ret.doc)

C16_LoadStep ==
    \A schemaJSON \in SchemaTexts :
        (C16_Generated /\ schemaJSON = SchemaText(ret.doc) /\ Load(schemaJSON))
            => ret'.err = ErrNone

\* C16: Load accepts the text of every object-rooted document a read has
\* returned: a Load of that text returns no error, also when the document
\* comes from samples with an empty array (an items schema with the empty
\* type) or with a key that was only ever null.
C16_GeneratedTextLoads == [][C16_LoadStep]_vars

\* a generated document holding an empty array's items schema and a
\* null-only key has been loaded without error
C16_Witness ==
    /\ loaded
    /\ ret.err = ErrNone
    /\ currentSchema # NilSchema
    /\ \E q \in DOMAIN currentSchema :
           /\ q # <<>>
           /\ Last(q) = ITEM
           /\ currentSchema[q].Type = TStr("")
    /\ history = EmptyBag

(***************************************************************************)
(* C17                                                                      *)
(***************************************************************************)
\* the names of the registered formats
FormatNames == {customFormats[i].Name : i \in DOMAIN customFormats}

\* the node at q holds the format F that a Load took from its document
C17_Seeded(q, F) ==
    /\ loaded
    /\ q \in DOMAIN rootNode
    /\ rootNode[q].candidateFormats = <<F>>
    /\ rootNode[q].candidateDetectors = <<"alwaysTrue">>

\* the strings value shows to the node at q
StringsAt(value, q) == {u \in Range(ObservedAt(value, q)) : u.t = "str"}

\* a string was ingested at q since the Load
C17_StringSeenAt(q) == \E w \in ValuesAt(q) : w.t = "str"

\* some string of value at q fails the detector registered for F
C17_Mismatch(value, q, F) ==
    \E i \in DOMAIN customFormats :
        /\ customFormats[i].Name = F
        /\ \E u \in StringsAt(value, q) : ~Detect(customFormats[i].Detector, u.s)

C17_LaterStep ==
    \A v \in Samples : \A q \in DOMAIN rootNode : \A F \in FormatNames :
        (C17_Seeded(q, F) /\ C17_StringSeenAt(q) /\ Ingests(v) /\ C17_Mismatch(v, q, F))
            => \A a \in Assemblies' : q \in DOMAIN a.doc => a.doc[q].Format = ""

\* C17 (second half, as claimed): a format taken from a loaded document is
\* no longer emitted once a string ingested after the first one does not
\* match the detector of that format.
C17_LoadedFormatEliminated == [][C17_LaterStep]_vars

C17_FirstStep ==
    \A v \in Samples : \A q \in DOMAIN rootNode : \A F \in FormatNames :
        (C17_Seeded(q, F) /\ ~C17_StringSeenAt(q) /\ Ingests(v) /\ StringsAt(v, q) # {})
            => \A a \in Assemblies' :
                   (q \in DOMAIN a.doc /\ a.pick[q] = "string") => a.doc[q].Format = F

\* C17 (first half): the format taken from a loaded document is still
\* emitted after the first string ingested at its position, whatever the
\* string, wherever the position is emitted as a string.
C17_LoadedFormatSurvivesFirst == [][C17_FirstStep]_vars

\* two strings that are no IPv4 address were ingested at a position loaded
\* with format ipv4, and the format is still emitted
C17_Witness ==
    /\ C17_Seeded(<<"a">>, "ipv4")
    /\ history = (Obj("a" :> Str(S_PLAIN)) :> 2)
    /\ \A a \in Assemblies : a.doc[<<"a">>].Format = "ipv4"

(***************************************************************************)
(* C18                                                                      *)
(***************************************************************************)
AllIdle == \A t \in Threads : pc[t] = "idle"

\* one AddParsedSample on tree, run alone
IngestAlone(tree, data) ==
    applyPredefinedTypes(ObserveValue(tree, <<>>, data, examplesEnabled, customFormats),
                         predefined)

RECURSIVE SequentialTrees(_, _)
\* the trees that ingesting the samples of bag one after the other, in any
\* order, makes of tree
SequentialTrees(tree, bag) ==
    IF bag = EmptyBag THEN {tree}
    ELSE UNION {SequentialTrees(IngestAlone(tree, data), bag (-) SetToBag({data}))
                    : data \in BagToSet(bag)}

\* every call made so far was an AddSample or AddParsedSample that merged
\* its sample, and all of them have returned
C18_AllIngested ==
    /\ AllIdle
    /\ maxSamples = 0
    /\ BagCardinality(history) = steps

\* C18: once k AddSample calls with valid samples, made concurrently on a
\* generator without cap, have all returned, the sample counter and the
\* sample count of the root are k and the tree is the one that ingesting
\* the k samples one after the other, in some order, gives.
C18_NoLostIngestion ==
    C18_AllIngested =>
        /\ sampleCount = steps
        /\ rootNode[<<>>].sampleCount = steps
        /\ rootNode \in SequentialTrees((<<>> :> NewSchemaNode), history)

\* two calls that overlapped have merged two different samples
C18_Witness ==
    /\ C18_AllIngested
    /\ overlap
    /\ steps = 2
    /\ Cardinality(BagToSet(history)) = 2
    /\ ret.err = ErrNone

(***************************************************************************)
(* C19                                                                      *)
(***************************************************************************)
\* the documents a read may return of a completed state: an assembly of its
\* tree, or the loaded document as it was given
DocumentsOf(snapshot) ==
    {buildCurrentSchema(snapshot.rootNode, pick, schemaVersion)
        : pick \in PrimaryChoices(snapshot.rootNode)}
    \cup (IF snapshot.document # NilSchema THEN {snapshot.document} ELSE {})

\* goroutine t is about to return from a read with a document
Returning(t) ==
    /\ pc[t] = "Unlock"
    /\ call[t].op \in Reads
    /\ call[t].doc # NilSchema

\* C19: a document returned by Generate, GenerateTo or GetCurrentSchema,
\* with other calls running, is an assembly of the tree as a completed
\* mutation left it (or the loaded document as given), and that mutation is
\* the last one that completed before the read took the lock or a later one.
C19_ReadsSeeCompletedState ==
    \A t \in Threads :
        Returning(t) => \E snapshot \in marks[t] : call[t].doc \in DocumentsOf(snapshot)

\* a read returns a document that holds a merged sample while an AddSample
\* waits for the lock
C19_Witness ==
    \E t, r \in Threads :
        /\ Returning(t)
        /\ <<"a">> \in DOMAIN call[t].doc
        /\ pc[r] = "Lock"
        /\ call[r].op = "AddSample"

(***************************************************************************)
(* C20                                                                      *)
(***************************************************************************)
\* C20: with a scheduler that does not stop while a goroutine can run,
\* every call of AddSample, AddParsedSample, Generate, GenerateTo,
\* GetCurrentSchema and Load returns, whatever runs beside it (again and
\* again a moment comes at which no call is in progress, so each call that
\* was in progress has returned by then), and the mutex is unlocked whenever
\* no call is in progress: no return, with or without error, leaves it
\* locked.
C20_EveryCallReturns ==
    /\ [](AllIdle => ~Locked)
    /\ []<>AllIdle

\* all the calls were made, two of them at once, the last to return was a
\* Load that failed under the lock, and the mutex is unlocked
C20_Witness ==
    /\ AllIdle
    /\ overlap
    /\ steps = MaxFairCalls
    /\ ret.err = ErrLoad
    /\ mu = 0

(***************************************************************************)
(* C21                                                                      *)
(***************************************************************************)
\* the type names in lexicographic order
LexOrder ==
    <<"array", "boolean", "integer", "null", "number", "object", "string">>

\* the first name of LexOrder among names
LexSmallest(names) ==
    LexOrder[CHOOSE i \in DOMAIN LexOrder :
                /\ LexOrder[i] \in names
                /\ \A j \in DOMAIN LexOrder : LexOrder[j] \in names => i <= j]

\* C21 (as claimed): of several types with the highest count the primary
\* type is the lexicographically smallest, so a tree has one assembly: two
\* generators fed the same samples return the same document.
C21_PrimaryTypeDeterministic ==
    /\ \A p \in DOMAIN rootNode :
           ObservedTypeNames(rootNode[p]) \ {""} # {} =>
               getPrimaryType(rootNode[p]) = {LexSmallest(getPrimaryType(rootNode[p]))}
    /\ \A a, b \in Assemblies : a.doc = b.doc

\* two samples were ingested and the tree has two assemblies
C21_Witness ==
    /\ BagCardinality(history) = 2
    /\ ~loaded
    /\ \E a, b \in Assemblies : a.doc # b.doc

(***************************************************************************)
(* C22                                                                      *)
(***************************************************************************)
\* the sorted non-null types of a node, a scalar when there is one
NonNullTypes(n) ==
    LET types == SortStrings(TypeOrder, ObservedTypeNames(n) \ {"null"})
    IN  IF Len(types) = 1 THEN TStr(types[1]) ELSE TList(types)

\* the node at p has no override and has observed several types
SeveralTypes(p) ==
    /\ rootNode[p].predefinedType = ""
    /\ Cardinality(ObservedTypeNames(rootNode[p])) > 1

\* C22 (as claimed): a node without override that has observed several
\* types is emitted with the sorted list of its non-null types (a scalar
\* when one is left), whichever of them is the primary type.
C22_TypeIsAllObserved ==
    \A a \in Assemblies : \A p \in DOMAIN a.doc :
        SeveralTypes(p) => a.doc[p].Type = NonNullTypes(rootNode[p])

\* the same where the primary type is neither array nor object
C22_TypeIsAllObservedOfScalars ==
    \A a \in Assemblies : \A p \in DOMAIN a.doc :
        (SeveralTypes(p) /\ a.pick[p] \notin {"array", "object"})
            => a.doc[p].Type = NonNullTypes(rootNode[p])

\* a position seen twice as an object and once as a string is emitted as
\* an object only
C22_Witness ==
    /\ ~loaded
    /\ <<"a">> \in DOMAIN rootNode
    /\ rootNode[<<"a">>].observedTypes["object"] = 2
    /\ rootNode[<<"a">>].observedTypes["string"] = 1
    /\ \A a \in Assemblies : a.doc[<<"a">>].Type = TStr("object")

(***************************************************************************)
(* C23                                                                      *)
(***************************************************************************)
\* the fixed document of an override for a scalar type
FixedShape(pt) ==
    IF pt = "datetime"
    THEN [EmptySchema EXCEPT !.Type = TStr("string"), !.Format = "date-time"]
    ELSE [EmptySchema EXCEPT !.Type = TStr(pt)]

\* the top-level field k has an override and was seen with a value that is
\* not null in a sample ingested since New or the last Load
OverrideSeen(k) ==
    /\ k \in DOMAIN predefined
    /\ \E v \in Ingested : v.t = "obj" /\ k \in DOMAIN v.o /\ v.o[k] # Null

\* the documents a read returns in this state
Readable == IF currentSchema # NilSchema THEN {currentSchema} ELSE Rebuilds

\* every document a read returns shows k, where it shows it, as its override
OverrideEmitted(k) ==
    \A doc \in Readable : <<k>> \in DOMAIN doc => doc[<<k>>] = FixedShape(predefined[k])

\* C23 (as claimed): once a top-level field with an override has been seen
\* non-null in a sample, every document generated afterwards, whatever call
\* comes in between, shows the field as the fixed shape of the override.
C23_OverrideEmittedEverAfter ==
    [][\A k \in DOMAIN predefined : OverrideSeen(k) => OverrideEmitted(k)']_vars

\* C23 (amended): a top-level field with an override that has been seen
\* non-null in a sample ingested since New or the last Load is shown, in
\* every document a read returns, as the fixed shape of the override,
\* without const, example or inferred format, whatever was observed.
C23_OverrideEmitted ==
    \A k \in DOMAIN predefined : OverrideSeen(k) => OverrideEmitted(k)

\* b, with the override DateTime, was seen as a number and as a plain
\* string, and a read has returned it as a date-time string
C23_Witness ==
    /\ OverrideSeen("b")
    /\ {v.o["b"].t : v \in {w \in Ingested : w.t = "obj" /\ "b" \in DOMAIN w.o}}
            = {"num", "str"}
    /\ ret.doc # NilSchema
    /\ ret.doc = currentSchema
    /\ ret.doc[<<"b">>] = FixedShape("datetime")

(***************************************************************************)
(* C24                                                                      *)
(***************************************************************************)
\* the positions of the item nodes
ItemPositions == {q \in Positions : q # <<>> /\ Last(q) = ITEM}

\* the elements of the arrays observed at the parent of q
ElementsAt(q) == ValuesAt(q)

\* what C24 says of the item node at q
C24_Merged(q) ==
    /\ q \in DOMAIN rootNode <=> \E v \in ValuesAt(Parent(q)) : v.t = "arr"
    /\ q \in DOMAIN rootNode =>
            rootNode[q].sampleCount = TimesObserved(Ingested, q)
    /\ (ElementsAt(q) # {} /\ \A e \in ElementsAt(q) : e.t = "obj") =>
            \A a \in Assemblies :
                q \in DOMAIN a.doc =>
                    Range(a.doc[q].Required) =
                        {k \in Range(KeyOrder) :
                            \A e \in ElementsAt(q) : k \in KeysNonNull(e)}

\* C24 as stated, of every reachable state: the item node exists iff an array
\* was observed at its position, has been shown every element of every such
\* array, and requires exactly the keys present non-null in every element
\* when all elements are objects.
C24_ItemsMergedAlways == \A q \in ItemPositions : C24_Merged(q)

\* C24: in a tree built by observation (no Load), the item node of a
\* position exists iff an array was observed there; it has been shown every
\* element of every array observed there; and when all these elements are
\* objects, a key is required in the items schema iff it is present and not
\* null in every one of them.
C24_ItemsMergedIntoOneNode ==
    ~loaded => \A q \in ItemPositions : C24_Merged(q)

\* an array of two objects was observed: the key in both is required in the
\* items schema, the key in one of them is not
C24_Witness ==
    /\ ~loaded
    /\ <<"a", ITEM>> \in DOMAIN rootNode
    /\ rootNode[<<"a", ITEM>>].sampleCount >= 2
    /\ \A e \in ElementsAt(<<"a", ITEM>>) : e.t = "obj"
    /\ \E a \in Assemblies :
           /\ <<"a", ITEM>> \in DOMAIN a.doc
           /\ a.doc[<<"a", ITEM>>].Required = <<"c">>
           /\ "b" \in a.doc[<<"a", ITEM>>].Properties

(***************************************************************************)
(* C25                                                                      *)
(***************************************************************************)
\* the nodes of the tree carry no example and no assembly emits one
NoExample ==
    /\ \A q \in DOMAIN rootNode : rootNode[q].firstValue = Null
    /\ \A a \in Assemblies : \A q \in DOMAIN a.doc : a.doc[q].Example = Null

\* the step records the first value shown to the node at q as its example
C25_FirstRecorded(v, q) ==
    (Ingests(v) /\ ValuesAt(q) = {} /\ ObservedAt(v, q) # <<>>)
        => /\ q \in DOMAIN rootNode'
           /\ rootNode'[q].firstValue = ObservedAt(v, q)[1]

\* the step leaves the example of a node that has observed a value as it is
C25_Kept(q) ==
    ValuesAt(q) # {}
        => /\ q \in DOMAIN rootNode /\ q \in DOMAIN rootNode'
           /\ rootNode'[q].firstValue = rootNode[q].firstValue

C25_Step ==
    examplesEnabled =>
        \A q \in Positions : C25_Kept(q) /\ \A v \in Samples : C25_FirstRecorded(v, q)

\* C25: with examples enabled the example of a node is the first value
\* observed at its position and never changes afterwards; with examples
\* disabled no node carries an example.
C25_ExampleIsFirstObserved ==
    /\ [][C25_Step]_vars
    /\ [](~examplesEnabled => NoExample)

\* the same of the steps that are no Load and start from a tree that was
\* not loaded
C25_ExampleIsFirstObservedSinceNew ==
    /\ [][(~loaded /\ ~loaded') => C25_Step]_vars
    /\ [](~examplesEnabled => NoExample)

\* with examples enabled two different values were ingested at a, and the
\* node holds one of them
C25_Witness ==
    /\ examplesEnabled
    /\ ~loaded
    /\ Cardinality(ValuesAt(<<"a">>)) >= 2
    /\ rootNode[<<"a">>].firstValue \in ValuesAt(<<"a">>)
    /\ \A a \in Assemblies : a.doc[<<"a">>].Example = rootNode[<<"a">>].firstValue

\* with examples enabled a value was ingested at a position of a loaded
\* tree, and the node has no example
C25_LoadedWitness ==
    /\ examplesEnabled
    /\ loaded
    /\ ValuesAt(<<"a">>) # {}
    /\ rootNode[<<"a">>].firstValue = Null

(***************************************************************************)
(* C26                                                                      *)
(***************************************************************************)
\* the cache holds a document
Fresh == currentSchema # NilSchema

\* the tree is as the last successful or failed Load left it
LastChangeWasLoad == loaded /\ history = EmptyBag

\* an ingestion that is no cap no-op leaves the cache stale
C26_IngestInvalidates ==
    (\E v \in Samples : Ingests(v)) => ~Fresh'

\* the cache gets a document only from a read that finds it stale, which
\* assembles the tree as it stands, or from a Load
C26_FilledByStaleRead ==
    (Fresh' /\ currentSchema' # currentSchema) =>
        \/ /\ ~Fresh
           /\ rootNode' = rootNode
           /\ currentSchema' \in Rebuilds
           /\ ret'.doc = currentSchema'
        \/ LastChangeWasLoad' /\ steps' = steps + 1

\* C26, as the steps of the generator: an ingestion that is no cap no-op
\* leaves the cache stale, and only a read that finds it stale rebuilds it.
C26_CacheSteps == [][C26_IngestInvalidates /\ C26_FilledByStaleRead]_vars

KeyRank(key) == CHOOSE i \in DOMAIN KeyOrder : KeyOrder[i] = key

\* the keys of the node at q whose child was observed as often as the node
SeenAsOften(q) ==
    {k \in Range(KeyOrder) :
        /\ Append(q, k) \in DOMAIN rootNode
        /\ rootNode[Append(q, k)].sampleCount = rootNode[q].sampleCount}

\* C27: wherever a node with primary type object and no predefined override
\* is emitted, its required list holds exactly the keys whose child has the
\* sample count of the node, in ascending order and once each.
C27_RequiredByCounts ==
    \A a \in Assemblies : \A q \in DOMAIN a.doc :
        (a.pick[q] = "object" /\ rootNode[q].predefinedType = "") =>
            LET required == a.doc[q].Required
            IN  /\ Range(required) = SeenAsOften(q)
                /\ \A i, j \in DOMAIN required :
                       i < j => KeyRank(required[i]) < KeyRank(required[j])

\* the root was observed three times and its children a and b every time:
\* both are required, in ascending order
C27_Witness ==
    /\ rootNode[<<>>].sampleCount = 3
    /\ SeenAsOften(<<>>) = {"a", "b"}
    /\ \E a \in Assemblies :
           /\ a.pick[<<>>] = "object"
           /\ a.doc[<<>>].Required = <<"a", "b">>

(***************************************************************************)
(* C28                                                                      *)
(***************************************************************************)
\* the objects observed at q
ObjectsAt(q) == {u \in ValuesAt(q) : u.t = "obj"}

\* the node at q is emitted as an object by assembly a, from observations
\* only and with no override
C28_EmittedObject(a, q) ==
    /\ ~loaded
    /\ q \in DOMAIN a.doc
    /\ a.pick[q] = "object"
    /\ rootNode[q].predefinedType = ""

\* C28 (as claimed): at a node emitted as an object a property is required
\* iff it was present and not null in every object observed at the node,
\* also when values of other types were observed there.
C28_RequiredAmongObjects ==
    \A a \in Assemblies : \A q \in DOMAIN a.doc :
        C28_EmittedObject(a, q) =>
            Range(a.doc[q].Required) =
                {k \in Range(KeyOrder) : \A u \in ObjectsAt(q) : k \in KeysNonNull(u)}

\* C28 (amended): at a node emitted as an object a property is required iff
\* every value observed at the node, of whatever type, was an object with
\* the property present and not null.
C28_RequiredAmongAll ==
    \A a \in Assemblies : \A q \in DOMAIN a.doc :
        C28_EmittedObject(a, q) =>
            Range(a.doc[q].Required) =
                {k \in Range(KeyOrder) :
                    \A u \in ValuesAt(q) : u.t = "obj" /\ k \in KeysNonNull(u)}

\* a was observed as an object with c more often than as a string: it is
\* emitted as an object with the property c, which is in every object
\* observed and is not required
C28_Witness ==
    /\ ~loaded
    /\ Cardinality(ObjectsAt(<<"a">>)) >= 1
    /\ ValuesAt(<<"a">>) \ ObjectsAt(<<"a">>) # {}
    /\ \A u \in ObjectsAt(<<"a">>) : "c" \in KeysNonNull(u)
    /\ \E a \in Assemblies :
           /\ a.pick[<<"a">>] = "object"
           /\ "c" \in a.doc[<<"a">>].Properties
           /\ a.doc[<<"a">>].Required = <<>>

(***************************************************************************)
(* C29                                                                      *)
(***************************************************************************)
\* const_state of a node: 0 unset, 1 candidate, 2 disqualified
ConstState(n) == IF n.constDiffer THEN 2 ELSE IF n.constSet THEN 1 ELSE 0

\* the node at q, or the node that is made there when q is first reached
NodeAt(tree, q) == IF q \in DOMAIN tree THEN tree[q] ELSE NewSchemaNode

\* the const fields of a node
ConstFields(n) == <<n.constSet, n.constDiffer, n.constValue>>

\* v shows the node at q no string, number or boolean
NoScalarAt(v, q) == \A u \in Range(ObservedAt(v, q)) : u.t \in {"null", "arr", "obj"}

\* what the ingestion of v may do to the const fields of the node at q
C29_Forward(v, q) ==
    LET n == NodeAt(rootNode, q)
        m == NodeAt(rootNode', q)
    IN  /\ ConstState(m) >= ConstState(n)
        /\ ConstState(m) = 2 => m.constValue = Null
        /\ (ConstState(n) = 1 /\ ConstState(m) = 1) => m.constValue = n.constValue
        /\ NoScalarAt(v, q) => ConstFields(m) = ConstFields(n)

\* C29: no ingestion moves the const state of a node backward, a
\* disqualified node stores no value again, and a node that is shown only
\* null, arrays and objects keeps its const state and its candidate value.
C29_ConstStateForward ==
    [][\A v \in Samples : Ingests(v) => \A q \in Positions : C29_Forward(v, q)]_vars

\* a was disqualified by two different strings and then observed as an
\* object: it is still disqualified and stores no value
C29_Witness ==
    /\ ~loaded
    /\ <<"a">> \in DOMAIN rootNode
    /\ ConstState(rootNode[<<"a">>]) = 2
    /\ rootNode[<<"a">>].constValue = Null
    /\ rootNode[<<"a">>].observedTypes["string"] = 2
    /\ rootNode[<<"a">>].observedTypes["object"] = 1

(***************************************************************************)
(* C30                                                                      *)
(***************************************************************************)
\* a successful Load was the last call that changed the generator: the cache
\* holds the loaded document and the tree is its reconstruction
JustLoaded == loaded /\ history = EmptyBag /\ FreshlyLoaded

\* the properties the loaded document declares at q and does not require
DeclaredOptional(q) == currentSchema[q].Properties \ Range(currentSchema[q].Required)

\* C30 (as claimed): right after a successful Load, the documents assembled
\* from the reconstructed tree have, at every object node of the loaded
\* document, the required set of the loaded document.
C30_RequiredAsLoaded ==
    JustLoaded =>
        \A q \in ObjectNodes(currentSchema) : \A a \in Assemblies :
            /\ q \in DOMAIN a.doc
            /\ Range(a.doc[q].Required) =
                   Range(currentSchema[q].Required) \cap currentSchema[q].Properties

\* what holds instead: right after a successful Load every property the
\* loaded document declares at an object node is required in the documents
\* assembled from the tree, the declared-required ones among them.
C30_AllDeclaredRequired ==
    JustLoaded =>
        \A q \in ObjectNodes(currentSchema) : \A a \in Assemblies :
            /\ q \in DOMAIN a.doc
            /\ a.doc[q].Required = SortStrings(KeyOrder, currentSchema[q].Properties)

\* a document with a required and an optional property was loaded, and the
\* tree assembles to a document that requires both
C30_Witness ==
    /\ JustLoaded
    /\ Range(currentSchema[<<>>].Required) # {}
    /\ DeclaredOptional(<<>>) # {}
    /\ \E a \in Assemblies :
           DeclaredOptional(<<>>) \subseteq Range(a.doc[<<>>].Required)

(***************************************************************************)
(* C31                                                                      *)
(***************************************************************************)
\* the step is a call of Load
LoadStep == \E schemaJSON \in SchemaTexts : Load(schemaJSON)

\* the step keeps every node of the tree and lowers no count of it
Grows ==
    \A q \in DOMAIN rootNode :
        /\ q \in DOMAIN rootNode'
        /\ rootNode'[q].sampleCount >= rootNode[q].sampleCount
        /\ \A typeName \in TypeNames :
               rootNode'[q].observedTypes[typeName] >= rootNode[q].observedTypes[typeName]

\* C31: a step that is no Load removes no node, neither a property nor an
\* item node, and lowers no sample count and no type count; an item node
\* that exists goes on counting and is not made anew.
C31_TreeOnlyGrows == [][~LoadStep => Grows]_vars

\* two arrays were ingested at a, one after the other, and the item node has
\* counted the elements of both
C31_Witness ==
    /\ ~loaded
    /\ BagCardinality(history) >= 2
    /\ <<"a", ITEM>> \in DOMAIN rootNode
    /\ rootNode[<<"a", ITEM>>].sampleCount >= 4
    /\ rootNode[<<"a", ITEM>>].observedTypes["string"] >= 3
    /\ rootNode[<<"a", ITEM>>].observedTypes["object"] >= 2

(***************************************************************************)
(* C32                                                                      *)
(***************************************************************************)
\* the step is a call of Generate, GenerateTo or GetCurrentSchema
ReadStep == Generate \/ GenerateTo \/ GetCurrentSchema

\* what a read leaves alone, and the document it returns
C32_Read ==
    /\ rootNode' = rootNode
    /\ sampleCount' = sampleCount
    /\ ret'.doc # NilSchema => currentSchema' = ret'.doc
    /\ Fresh => currentSchema' = currentSchema
    /\ (ret.doc # NilSchema /\ ret'.doc # NilSchema) => ret'.doc = ret.doc

\* C32: a read changes neither the tree nor the sample counter, and a read
\* that follows a read with no ingestion and no Load between them returns
\* the document the first one returned.
C32_ReadsChangeNothing == [][ReadStep => C32_Read]_vars

\* a read has returned one of the two documents a tree with a tie for the
\* primary type assembles to, and the cache holds it for the next read
C32_Witness ==
    /\ Cardinality(Rebuilds) > 1
    /\ Fresh
    /\ ret.doc = currentSchema

(***************************************************************************)
(* C33                                                                      *)
(*                                                                          *)
(* currentSchema is a *Schema and GetCurrentSchema returns that pointer, so *)
(* the caller and the cache share one document in memory.  objects is that  *)
(* memory: every &Schema{} of ToSchema and the local schema of Load is a    *)
(* new address.  Documents that neither the cache nor a caller points to    *)
(* are dropped.                                                             *)
(***************************************************************************)
\* an allocation that hands out the address used last
AllocateReused(objs) ==
    IF DOMAIN objs = {} THEN 1
    ELSE CHOOSE at \in DOMAIN objs : \A other \in DOMAIN objs : other <= at

\* schema := &Schema{}: an address no document is at
Allocate(objs) ==
    CHOOSE at \in 1..(Cardinality(DOMAIN objs) + 1) : at \notin DOMAIN objs

\* the documents of objs a caller still points to
StillHeld(objs) == [at \in DOMAIN objs \cap DOMAIN held |-> objs[at]]

\* the call leaves the cache and the documents alone
KeepCache == UNCHANGED <<objects, cacheAt>>

\* g.currentSchema = nil
DropCache ==
    /\ cacheAt' = 0
    /\ objects' = StillHeld(objects)

\* g.currentSchema = a document made by this call
StoreCache(doc) ==
    LET at == Allocate(objects)
    IN  /\ cacheAt' = at
        /\ objects' = (at :> doc) @@ StillHeld(objects)

\* if g.currentSchema == nil { g.currentSchema = g.buildCurrentSchema() }
FillCache == IF cacheAt = 0 THEN StoreCache(currentSchema') ELSE KeepCache

HeldAddSample(jsonData) ==
    /\ AddSample(jsonData)
    /\ IF Unmarshal(jsonData).err \/ CapReached THEN KeepCache ELSE DropCache
    /\ UNCHANGED <<goroutines, held>>

HeldAddParsedSample(data) ==
    /\ AddParsedSample(data)
    /\ IF CapReached THEN KeepCache ELSE DropCache
    /\ UNCHANGED <<goroutines, held>>

HeldGenerate ==
    /\ Generate
    /\ IF sampleCount = 0 THEN KeepCache ELSE FillCache
    /\ UNCHANGED <<goroutines, held>>

HeldGenerateTo ==
    /\ GenerateTo
    /\ IF sampleCount = 0 THEN KeepCache ELSE FillCache
    /\ UNCHANGED <<goroutines, held>>

\* return g.currentSchema: the caller keeps the pointer or lets it go, and
\* keeps MaxHeld documents at most
HeldGetCurrentSchema ==
    /\ GetCurrentSchema
    /\ FillCache
    /\ \/ UNCHANGED held
       \/ /\ cacheAt' \notin DOMAIN held
          /\ Cardinality(DOMAIN held) < MaxHeld
          /\ held' = (cacheAt' :> objects'[cacheAt']) @@ held
    /\ UNCHANGED goroutines

HeldLoad(schemaJSON) ==
    LET u == UnmarshalSchema(schemaJSON)
    IN  /\ Load(schemaJSON)
        /\ IF u.err \/ ~rootTypeIsObject(u.schema) THEN KeepCache
           ELSE IF ret'.err = ErrLoad THEN DropCache
           ELSE StoreCache(u.schema)
        /\ UNCHANGED <<goroutines, held>>

NextHeld ==
    \/ \E jsonData \in ConcTexts : HeldAddSample(jsonData)
    \/ \E data \in ParsedValues : HeldAddParsedSample(data)
    \/ HeldGenerate
    \/ HeldGenerateTo
    \/ HeldGetCurrentSchema
    \/ \E schemaJSON \in ConcSchemaTexts : HeldLoad(schemaJSON)

\* one caller that keeps every document GetCurrentSchema returned
SpecHeld == Init /\ [][NextHeld]_vars

\* the fields of a document the claim names, at every position of it
Fields(doc) ==
    [q \in DOMAIN doc |->
        <<doc[q].Type, doc[q].Properties, doc[q].Required, doc[q].Format, doc[q].Const>>]

\* C33: a document GetCurrentSchema returned has, as long as the caller
\* holds it, the type, properties, required, format and const it had when
\* it was returned, whatever was ingested or loaded since; the cached
\* document is in memory what the generator takes it to be.
C33_ReturnedDocumentKept ==
    /\ \A at \in DOMAIN held :
           at \in DOMAIN objects /\ Fields(objects[at]) = Fields(held[at])
    /\ cacheAt = 0 <=> currentSchema = NilSchema
    /\ cacheAt # 0 => cacheAt \in DOMAIN objects /\ objects[cacheAt] = currentSchema

\* GetCurrentSchema returned a document, a sample was ingested, and a read
\* has assembled another document that differs from the one the caller holds
C33_Witness ==
    /\ \E at \in DOMAIN held :
           /\ cacheAt # 0
           /\ at # cacheAt
           /\ Fields(held[at]) # Fields(objects[cacheAt])
    /\ BagCardinality(history) >= 1

(***************************************************************************)
(* C34                                                                      *)
(***************************************************************************)
\* a detector of the caller that accepts every string
AnyFormat == WithCustomFormat("any", "alwaysTrue")
MyDate == WithCustomFormat("my-date", "myDateDetector")

\* the options about detectors
DetectorOptions == {MyDate, AnyFormat, WithoutBuiltInFormats}

\* every list of up to MaxOptions of them
DetectorOptionLists ==
    UNION {[1..n -> DetectorOptions] : n \in 0..MaxOptions}

InitNew == \E opts \in DetectorOptionLists : InitWith(opts)

\* samples with a day, an address and a plain string
NewTexts == {"{\"a\":{\"c\":\"2023-01-15\"},\"b\":null}", "{\"a\":\"x\"}"}

NextNew ==
    \/ \E jsonData \in NewTexts : AddSample(jsonData) /\ UNCHANGED <<goroutines, handles>>
    \/ Generate /\ UNCHANGED <<goroutines, handles>>

\* generators made with every list of detector options, then fed samples
SpecNew == InitNew /\ [][NextNew]_vars

\* the custom detectors of opts, in registration order
Registered(opts) ==
    LET custom == SelectSeq(opts, LAMBDA opt : opt.o = "WithCustomFormat")
    IN  [i \in DOMAIN custom |-> CustomFormat(custom[i].name, custom[i].arg)]

BuiltInsDisabled(opts) == \E i \in DOMAIN opts : opts[i] = WithoutBuiltInFormats

\* C34 (as claimed): the detector list is the built-ins in their order and
\* then the custom detectors in registration order, or the custom detectors
\* alone when WithoutBuiltInFormats is among the options, wherever it is.
C34_DetectorList ==
    customFormats =
        (IF BuiltInsDisabled(options) THEN <<>> ELSE getBuiltInFormats) \o Registered(options)

\* the place of the last WithoutBuiltInFormats of opts, 0 when there is none
LastDisabled(opts) ==
    IF BuiltInsDisabled(opts)
    THEN CHOOSE i \in DOMAIN opts :
             /\ opts[i] = WithoutBuiltInFormats
             /\ \A j \in DOMAIN opts : opts[j] = WithoutBuiltInFormats => j <= i
    ELSE 0

\* what holds instead: WithoutBuiltInFormats empties the list as it stands,
\* so the custom detectors registered before it are gone with the built-ins.
C34_DetectorListAfterLastDisable ==
    customFormats =
        (IF BuiltInsDisabled(options) THEN <<>> ELSE getBuiltInFormats)
            \o Registered(SubSeq(options, LastDisabled(options) + 1, Len(options)))

\* my-date was registered before the built-ins were disabled: the list is
\* empty, and a day ingested at a.c is emitted with no format
C34_Witness ==
    /\ options = <<MyDate, WithoutBuiltInFormats>>
    /\ customFormats = <<>>
    /\ <<"a", "c">> \in DOMAIN rootNode
    /\ rootNode[<<"a", "c">>].stringCount >= 1
    /\ \A a \in Assemblies : a.doc[<<"a", "c">>].Format = ""

(***************************************************************************)
(* C35                                                                      *)
(***************************************************************************)
\* the nodes that carry an override
Overridden(tree) == {q \in DOMAIN tree : tree[q].predefinedType # ""}

\* an override sits on a direct child of the root with a configured name and
\* is the configured one
C35_OnlyRootChildren ==
    \A q \in Overridden(rootNode) :
        /\ Len(q) = 1
        /\ q[1] \in DOMAIN predefined
        /\ rootNode[q].predefinedType = predefined[q[1]]

\* a step that attaches an override is an ingestion past the cap test, and
\* the tree a Load has made carries none
C35_AttachStep ==
    /\ (\E q \in Overridden(rootNode') : q \notin Overridden(rootNode))
           => \E v \in Samples : Ingests(v)
    /\ (LoadStep /\ rootNode' # rootNode) => Overridden(rootNode') = {}

\* C35: overrides are attached to direct children of the root with a
\* configured name only, and only by an ingestion that is no cap no-op; a
\* property of the same name deeper in the tree carries none, and neither
\* does any node of a tree made by Load.
C35_OverridesOnRootChildrenOnly ==
    /\ []C35_OnlyRootChildren
    /\ [][C35_AttachStep]_vars

\* b is configured and was ingested both at the root and inside the items
\* of an array: the child of the root carries the override, the property of
\* the items is emitted as the integer it was observed as
C35_Witness ==
    /\ "b" \in DOMAIN predefined
    /\ ~loaded
    /\ Overridden(rootNode) = {<<"b">>}
    /\ <<"a", ITEM, "b">> \in DOMAIN rootNode
    /\ rootNode[<<"a", ITEM, "b">>].sampleCount >= 1
    /\ \E a \in Assemblies :
           /\ <<"a", ITEM, "b">> \in DOMAIN a.doc
           /\ a.doc[<<"a", ITEM, "b">>].Type = TStr("integer")
           /\ a.doc[<<"b">>] = FixedShape(predefined["b"])

(***************************************************************************)
(* C36                                                                      *)
(***************************************************************************)
\* C36 (as claimed): the sample count of the root is the sample counter of
\* the generator in every reachable state, also after a call that returned
\* an error.
C36_RootCountIsSampleCount == rootNode[<<>>].sampleCount = sampleCount

\* what holds instead: every call but a Load that fails inside
\* loadSchemaIntoNode keeps the two equal
C36_EqualUnlessLoadFailed ==
    [][(C36_RootCountIsSampleCount /\ ret'.err # ErrLoad) => C36_RootCountIsSampleCount']_vars

\* a Load of a document with a bad nested type has failed on a new
\* generator: the root counts 1 and the generator 0
C36_Witness ==
    /\ ret.err = ErrLoad
    /\ rootNode[<<>>].sampleCount = 1
    /\ sampleCount = 0

(***************************************************************************)
(* C37                                                                      *)
(***************************************************************************)
\* C37: with a cap configured, whatever the goroutines do and wherever they
\* stand in their calls, the sample counter is at most the cap and at most
\* that many samples have been merged into the tree since New or the last
\* Load.
C37_CapHolds ==
    maxSamples > 0 =>
        /\ sampleCount <= maxSamples
        /\ BagCardinality(history) <= maxSamples

\* three calls were made with a cap of two, some of them at the same time:
\* two samples were merged and the third call was a no-op
C37_Witness ==
    /\ maxSamples = 2
    /\ overlap
    /\ AllIdle
    /\ steps = 3
    /\ sampleCount = maxSamples
    /\ BagCardinality(history) = maxSamples
    /\ ret.err = ErrNone

(***************************************************************************)
(* C38                                                                      *)
(***************************************************************************)
\* the documents a read may assemble from tree
DocumentsOfTree(tree) ==
    {buildCurrentSchema(tree, pick, schemaVersion) : pick \in PrimaryChoices(tree)}

\* no node of tree has two types with the highest count
NoTie(tree) == \A q \in DOMAIN tree : Cardinality(getPrimaryType(tree[q])) = 1

\* the generator has no examples and no cap, its tree was built from the
\* samples of history and has no tie
C38_Commutes ==
    /\ ~examplesEnabled
    /\ maxSamples = 0
    /\ ~loaded
    /\ NoTie(rootNode)

\* C38: with examples disabled, no cap, no Load and no tie, ingesting the
\* samples in any other order gives a tree that assembles to the same one
\* document: types, required lists, const and format do not depend on the
\* order of the samples.
C38_OrderIndependent ==
    C38_Commutes =>
        \A tree \in SequentialTrees((<<>> :> NewSchemaNode), history) :
            /\ DocumentsOfTree(tree) = Rebuilds
            /\ Cardinality(Rebuilds) = 1

\* three different samples were ingested, which six orders could have
\* brought, and the document has a const somewhere
C38_Witness ==
    /\ C38_Commutes
    /\ BagCardinality(history) = 3
    /\ Cardinality(Ingested) = 3
    /\ \E doc \in Rebuilds : \E q \in DOMAIN doc : doc[q].Const # Null

(***************************************************************************)
(* C39                                                                      *)
(***************************************************************************)
\* the types the node has an observedTypes entry for
TypesCounted(n) == {typeName \in TypeNames : n.observedTypes[typeName] > 0}

\* every node of tree was counted once, as one type
CountedOnce(tree) ==
    \A q \in DOMAIN tree :
        /\ tree[q].sampleCount = 1
        /\ Cardinality(TypesCounted(tree[q])) = 1
        /\ \A typeName \in TypesCounted(tree[q]) : tree[q].observedTypes[typeName] = 1

PrimitivesIn(value, q) ==
    {u \in Range(ObservedAt(value, q)) :
        getPrimitiveType(u) \in {"string", "integer", "number", "boolean"}}

\* a Load that succeeds leaves every node with const tracking unset
C40_LoadUnsets ==
    (LoadStep /\ ret'.err = ErrNone) =>
        \A q \in DOMAIN rootNode' : ConstFields(rootNode'[q]) = <<FALSE, FALSE, Null>>

\* the step ingests v into a loaded tree, and v shows the node at q, which
\* has seen no string, number or boolean since the Load, the one such value u
C40_First(v, q, u) ==
    /\ loaded
    /\ Ingests(v)
    /\ q \in DOMAIN rootNode
    /\ ConstState(rootNode[q]) = 0
    /\ PrimitivesIn(v, q) = {u}

\* C40 (as claimed): Load leaves const tracking unset, and the first
\* primitive value ingested at a position afterwards is its const candidate
\* and the const of the position in the next document, wherever the
\* position is emitted.
C40_FirstValueIsConst ==
    [][/\ C40_LoadUnsets
       /\ \A v \in Samples : \A q \in Positions : \A u \in PrimitivesIn(v, q) :
              C40_First(v, q, u) =>
                  /\ ConstFields(rootNode'[q]) = <<TRUE, FALSE, u>>
                  /\ \A a \in Assemblies' : q \in DOMAIN a.doc => a.doc[q].Const = u]_vars

\* C40 (amended): the same, with the const emitted where the position
\* carries no predefined override, and no const where it carries one.
C40_FirstValueIsConstNoOverride ==
    [][/\ C40_LoadUnsets
       /\ \A v \in Samples : \A q \in Positions : \A u \in PrimitivesIn(v, q) :
              C40_First(v, q, u) =>
                  /\ ConstFields(rootNode'[q]) = <<TRUE, FALSE, u>>
                  /\ \A a \in Assemblies' :
                         q \in DOMAIN a.doc =>
                             a.doc[q].Const =
                                 IF rootNode'[q].predefinedType = "" THEN u ELSE Null]_vars

\* a document generated with a const at a was loaded: no node of the tree
\* tracks a const
C40_LoadedWitness ==
    /\ JustLoaded
    /\ <<"a">> \in DOMAIN currentSchema
    /\ currentSchema[<<"a">>].Const # Null
    /\ \A q \in DOMAIN rootNode : ConstState(rootNode[q]) = 0

\* one sample was ingested after a Load that left a node for a: the value
\* of a in the sample is the const candidate and the const emitted
C40_Witness ==
    /\ loaded
    /\ BagCardinality(history) = 1
    /\ <<"a">> \in DOMAIN rootNode
    /\ rootNode[<<"a">>].sampleCount = 2
    /\ ConstState(rootNode[<<"a">>]) = 1
    /\ \A v \in Ingested : PrimitivesIn(v, <<"a">>) = {rootNode[<<"a">>].constValue}
    /\ \A a \in Assemblies : a.doc[<<"a">>].Const = rootNode[<<"a">>].constValue

====
